---------------------------- MODULE Spec2Model ----------------------------
(***************************************************************************)
(* A model of formula_altsearch/searcher.py: one query of                  *)
(* FormulaSearcher.find_best_matches, for ExhaustiveFormulaSearcher and    *)
(* BeamFormulaSearcher, called through the module-level find_best_matches, *)
(* the same query with both algorithms in turn, and single calls of the    *)
(* searcher's pure methods.                                                *)
(*                                                                         *)
(* Numbers.  Amounts and dosages are integers counted in one raw unit;     *)
(* Quantum raw units make one step of np.round(., places).  A raw dosage   *)
(* is what the optimizer returns, a rounded dosage is a multiple of        *)
(* Quantum.  delta is kept as delta^2 (an integer) and turned into a       *)
(* match percentage in fixed point by calculate_match_ratio.               *)
(*                                                                         *)
(* The optimizer.  scipy.optimize.minimize is not code of the repository:  *)
(* find_best_dosages is modelled by its contract, a minimizer of           *)
(* calculate_delta over the box [0, MaxRaw]^n (any of the minimizers), or  *)
(* a failure, which the environment may produce at any call (at most       *)
(* MaxFaults times in one query).                                          *)
(***************************************************************************)
EXTENDS Integers, Sequences, FiniteSets, TLC

\* ------------------------------------------------------------ bounds
\* upper end of the optimizer's box, in raw units (stands for bounds (0, 50))
MaxRaw == 4
\* optimizer failures the environment may produce in one query
MaxFaults == 1
\* fixed-point scale: a real number r is kept as floor(r * Scale)
Scale == 100

\* ------------------------------------------------------------ constants
DEFAULT_TOP_N == 5
\* raw units per rounding step of np.round(x, places)
Quantum == 2

\* ------------------------------------------------------------ inputs
\* The catalog, in insertion order, and each recipe's composition.
CatalogOrder == <<"A", "B", "C", "s1", "s2", "s3">>

database ==
    [A  |-> [h1 |-> 1, h2 |-> 1],
     B  |-> [h1 |-> 1, h3 |-> 1],
     C  |-> [h2 |-> 1, h4 |-> 1],
     s1 |-> [h1 |-> 1],
     s2 |-> [h2 |-> 2],
     s3 |-> [h2 |-> 1]]

Recipes == DOMAIN database

\* every herb of the catalog, once
HerbOrder == <<"h1", "h2", "h3", "h4">>

\* A composition given in insertion order: a sequence of <<herb, amount>>.
Herbs(comp) == {comp[i][1] : i \in 1..Len(comp)}

Get(comp, herb) ==
    IF \E i \in 1..Len(comp) : comp[i][1] = herb
    THEN LET i == CHOOSE j \in 1..Len(comp) : comp[j][1] = herb IN comp[i][2]
    ELSE 0

Targets ==
    { << <<"h1", 6>>, <<"h2", 2>>, <<"h3", 4>> >>,
      << <<"h1", 4>>, <<"h2", 4>> >>,
      << <<"h2", 2>> >> }

ExcludeSets == { {}, {"A"}, {"B", "s2"} }

\* ------------------------------------------------------------ sequences
RECURSIVE SeqSum(_)
SeqSum(s) == IF s = <<>> THEN 0 ELSE Head(s) + SeqSum(Tail(s))

Range(s) == {s[i] : i \in 1..Len(s)}

Min(a, b) == IF a <= b THEN a ELSE b

Max(a, b) == IF a >= b THEN a ELSE b

Take(s, n) == SubSeq(s, 1, Min(n, Len(s)))

Reverse(s) == [i \in 1..Len(s) |-> s[Len(s) + 1 - i]]

\* a mask that removes nothing
Mask_All(s, keep) == s

\* The members of s at the positions where keep is TRUE (numpy boolean mask).
RECURSIVE Mask(_, _)
Mask(s, keep) ==
    IF s = <<>> THEN <<>>
    ELSE (IF Head(keep) THEN <<Head(s)>> ELSE <<>>) \o Mask(Tail(s), Tail(keep))

\* sorted(items, key, reverse=True): stable, so equal keys keep their order.
\* An item is a record with a key k = <<numerator, denominator>>.
KeyGE(a, b) == a[1] * b[2] >= b[1] * a[2]

RECURSIVE InsertDesc(_, _)
InsertDesc(sorted, item) ==
    IF sorted = <<>> THEN <<item>>
    ELSE IF KeyGE(Head(sorted).k, item.k)
         THEN <<Head(sorted)>> \o InsertDesc(Tail(sorted), item)
         ELSE <<item>> \o sorted

RECURSIVE SortDesc(_)
SortDesc(items) ==
    IF items = <<>> THEN <<>>
    ELSE InsertDesc(SortDesc(SubSeq(items, 1, Len(items) - 1)), items[Len(items)])

nlargest_Unsorted(n, items) == Take(items, Max(n, 0))

\* heapq.nlargest(n, items, key): sorted(items, key=key, reverse=True)[:n]
nlargest(n, items) == Take(SortDesc(items), Max(n, 0))

\* math.ceil(num / den) for den > 0
Ceil(num, den) == -((-num) \div den)

\* floor(sqrt(n)) by bisection
RECURSIVE SqrtBetween(_, _, _)
SqrtBetween(n, lo, hi) ==
    IF lo >= hi THEN lo
    ELSE LET mid == (lo + hi + 1) \div 2
         IN IF mid * mid <= n THEN SqrtBetween(n, mid, hi)
            ELSE SqrtBetween(n, lo, mid - 1)

\* 46340 is the largest integer whose square fits 32 bits
sqrt(n) == SqrtBetween(n, 0, Min(n, 46340))

\* np.round(x, places): to the nearest multiple of Quantum, halves to the even one
Round(x) ==
    LET q == x \div Quantum
        r == x % Quantum
    IN IF 2 * r < Quantum THEN q * Quantum
       ELSE IF 2 * r > Quantum THEN (q + 1) * Quantum
       ELSE IF q % 2 = 0 THEN q * Quantum ELSE (q + 1) * Quantum

RoundAll(dosages) == [i \in 1..Len(dosages) |-> Round(dosages[i])]

\* ------------------------------------------------------------ state
VARIABLES
    algorithm,           \* the algorithm argument: "exhaustive", "beam" or another name
    opts,                \* names of the keyword options passed on to the searcher
                         \* besides the ones below
    penalty_factor,
    target_composition,  \* the target, a sequence of <<herb, amount>>
    excludes,            \* set of recipe ids
    max_cformulas,
    max_sformulas,
    top_n,               \* the argument of find_best_matches: <<>> is None, <<n>> is n
    beam_width_factor,   \* <<numerator, denominator>>
    beam_multiplier,     \* <<numerator, denominator>>
    evaluate_cache,      \* frozenset(combo) -> result of calculate_match
    opt_calls,           \* history: the calls of find_best_dosages so far
    faults,              \* history: how many of them failed
    pc,                  \* where the query is
    gen,                 \* state of generate_combinations
    ev,                  \* state of the running evaluate_combination
    fm,                  \* locals of find_matches
    combos,              \* find_unique_matches: the keys seen
    produced,            \* history: everything find_matches has yielded
    found,               \* the results find_unique_matches has yielded
    matches,             \* what find_best_matches returns
    error,               \* the exception find_best_matches raised, or "none"
    call,                \* the last single call of a method and what it returned
    reference            \* history: what an earlier exhaustive query on the same
                         \* input found, for a comparison of the two algorithms

config == <<algorithm, opts, penalty_factor, target_composition, excludes, max_cformulas,
            max_sformulas, top_n, beam_width_factor, beam_multiplier, reference>>

vars == <<algorithm, opts, penalty_factor, target_composition, excludes, max_cformulas,
          max_sformulas, top_n, beam_width_factor, beam_multiplier, evaluate_cache,
          opt_calls, faults, pc, gen, ev, fm, combos, produced, found, matches,
          error, call, reference>>

\* ------------------------------------------------------------ catalog view
\* any(self.target_composition.get(herb, 0) for herb in composition)
Related_KeyOnly(item) ==
    \E herb \in DOMAIN database[item] : herb \in Herbs(target_composition)

Related(item) ==
    \E herb \in DOMAIN database[item] : Get(target_composition, herb) # 0

IsComplex(item) == Cardinality(DOMAIN database[item]) > 1

cformulas_NoExcludes ==
    SelectSeq(CatalogOrder, LAMBDA item : Related(item) /\ IsComplex(item))

cformulas ==
    SelectSeq(CatalogOrder,
              LAMBDA item : item \notin excludes /\ Related(item) /\ IsComplex(item))

sformulas ==
    SelectSeq(CatalogOrder,
              LAMBDA item : item \notin excludes /\ Related(item) /\ ~IsComplex(item))

\* the index filled for every related recipe, complex ones included
herb_sformulas_AllRecipes ==
    LET related == SelectSeq(CatalogOrder,
                             LAMBDA item : item \notin excludes /\ Related(item))
    IN [herb \in UNION {DOMAIN database[related[i]] : i \in 1..Len(related)} |->
          SelectSeq(related, LAMBDA item : herb \in DOMAIN database[item])]

\* herb -> the single recipes of that herb, in catalog order
herb_sformulas ==
    [herb \in UNION {DOMAIN database[sformulas[i]] : i \in 1..Len(sformulas)} |->
        SelectSeq(sformulas, LAMBDA item : herb \in DOMAIN database[item])]

\* ------------------------------------------------------------ scoring
\* {herb: sum of amount * dosage}; zip() stops at the shorter argument
get_formula_composition(formulas, dosages) ==
    LET n == Min(Len(formulas), Len(dosages))
    IN [herb \in UNION {DOMAIN database[formulas[i]] : i \in 1..n} |->
          SeqSum([i \in 1..n |->
                    IF herb \in DOMAIN database[formulas[i]]
                    THEN database[formulas[i]][herb] * dosages[i] ELSE 0])]

Amount(composition, herb) ==
    IF herb \in DOMAIN composition THEN composition[herb] ELSE 0

SquaredDelta_PenaltyOutside(x, combo) ==
    LET combined == get_formula_composition(combo, x)
        target == target_composition
    IN SeqSum([i \in 1..Len(target) |->
                 (target[i][2] - Amount(combined, target[i][1])) ^ 2])
       + SeqSum([i \in 1..Len(HerbOrder) |->
                 IF HerbOrder[i] \in DOMAIN combined /\ HerbOrder[i] \notin Herbs(target)
                 THEN (combined[HerbOrder[i]] ^ 2) * penalty_factor ELSE 0])

\* the value under the square root of calculate_delta
SquaredDelta(x, combo) ==
    LET combined == get_formula_composition(combo, x)
        target == target_composition
    IN SeqSum([i \in 1..Len(target) |->
                 (target[i][2] - Amount(combined, target[i][1])) ^ 2])
       + SeqSum([i \in 1..Len(HerbOrder) |->
                 IF HerbOrder[i] \in DOMAIN combined /\ HerbOrder[i] \notin Herbs(target)
                 THEN (combined[HerbOrder[i]] * penalty_factor) ^ 2 ELSE 0])

\* calculate_delta, in fixed point
calculate_delta(x, combo) == sqrt(SquaredDelta(x, combo) * Scale * Scale)

variance_Linear ==
    SeqSum([i \in 1..Len(target_composition) |-> target_composition[i][2]]) * Scale

\* calculate_variance of the target, in fixed point
variance ==
    sqrt(SeqSum([i \in 1..Len(target_composition) |-> target_composition[i][2] ^ 2])
         * Scale * Scale)

calculate_match_ratio_Plus(delta, variance_arg) ==
    LET v == IF variance_arg = <<>> THEN variance ELSE variance_arg[1]
    IN IF v # 0 THEN Scale + (delta * Scale) \div v ELSE Scale

\* calculate_match_ratio(delta, variance=None), in fixed point (1.0 is Scale);
\* variance_arg is <<>> for None.  The quotient is rounded away from zero, so
\* that the result has the sign of variance - delta, as the float has.
calculate_match_ratio(delta, variance_arg) ==
    LET v == IF variance_arg = <<>> THEN variance ELSE variance_arg[1]
    IN IF v # 0
       THEN (IF delta <= v THEN Ceil((v - delta) * Scale, v)
                           ELSE 0 - Ceil((delta - v) * Scale, v))
       ELSE Scale

\* ------------------------------------------------------------ optimizer
\* the box of find_best_dosages: bounds = [(0, 50) for _ in combo]
Box(n) == [1..n -> 0..MaxRaw]

\* an optimizer that returns any point of the box
Minimizers_Box(combo) == Box(Len(combo))

\* what minimize(self.calculate_delta, ...) may return on success: a point of
\* the box where calculate_delta is least (sqrt is monotone, so where the
\* squared delta is least)
Minimizers(combo) ==
    LET box == Box(Len(combo))
        values == {SquaredDelta(x, combo) : x \in box}
        best == CHOOSE v \in values : \A w \in values : v <= w
    IN {x \in box : SquaredDelta(x, combo) = best}

\* _calculate_match for the dosages x that find_best_dosages returned
calculate_match_of(x, combo) ==
    LET delta == calculate_delta(x, combo)
    IN [ok |-> TRUE, dosages |-> x, delta |-> delta,
        match_pct |-> calculate_match_ratio(delta, <<>>) * 100]

\* the ValueError of find_best_dosages, as calculate_match stores it
Failure == [ok |-> FALSE, dosages |-> <<>>, delta |-> 0, match_pct |-> 0]

\* calculate_match(()) : result = (), 0.0, 100.0
EmptyMatch == [ok |-> TRUE, dosages |-> <<>>, delta |-> 0, match_pct |-> 100 * Scale]

\* frozenset(combo)
Key(combo) == Range(combo)

\* a cache that stores results only, never the error
Cached_SuccessOnly(cache, key, result) ==
    IF result.ok
    THEN [k \in DOMAIN cache \cup {key} |-> IF k = key THEN result ELSE cache[k]]
    ELSE cache

\* self.evaluate_cache[key] = result
Cached(cache, key, result) ==
    [k \in DOMAIN cache \cup {key} |-> IF k = key THEN result ELSE cache[k]]

\* ------------------------------------------------------------ exhaustive
\* itertools.combinations(s, r): the r-subsequences of s in lexicographic order
RECURSIVE combinations_Swapped(_, _)
combinations_Swapped(s, r) ==
    IF r = 0 THEN << <<>> >>
    ELSE IF Len(s) < r THEN <<>>
    ELSE LET with == combinations_Swapped(Tail(s), r - 1)
         IN combinations_Swapped(Tail(s), r)
            \o [i \in 1..Len(with) |-> <<Head(s)>> \o with[i]]

RECURSIVE combinations(_, _)
combinations(s, r) ==
    IF r = 0 THEN << <<>> >>
    ELSE IF Len(s) < r THEN <<>>
    ELSE LET with == combinations(Tail(s), r - 1)
         IN [i \in 1..Len(with) |-> <<Head(s)>> \o with[i]]
            \o combinations(Tail(s), r)

RECURSIVE ExhaustiveFrom_NoCap(_)
ExhaustiveFrom_NoCap(i) ==
    IF i > Len(cformulas) THEN <<>>
    ELSE combinations(cformulas, i) \o ExhaustiveFrom_NoCap(i + 1)

\* ExhaustiveFormulaSearcher.generate_combinations, as the sequence it yields
RECURSIVE ExhaustiveFrom(_)
ExhaustiveFrom(i) ==
    IF i > Min(Len(cformulas), max_cformulas) THEN <<>>
    ELSE combinations(cformulas, i) \o ExhaustiveFrom(i + 1)

ExhaustiveCombinations == ExhaustiveFrom(0)

\* ------------------------------------------------------------ supplement
RECURSIVE RunStack_NoCap(_, _)
RunStack_NoCap(stack, candidate_herbs) ==
    IF stack = <<>> THEN <<>>
    ELSE LET top == stack[Len(stack)]
             rest == SubSeq(stack, 1, Len(stack) - 1)
         IN IF top.n >= Len(candidate_herbs)
            THEN (IF top.combo # <<>> THEN <<top.combo>> ELSE <<>>)
                 \o RunStack_NoCap(rest, candidate_herbs)
            ELSE LET choices == Reverse(herb_sformulas[candidate_herbs[top.n + 1]])
                 IN RunStack_NoCap(rest \o [i \in 1..Len(choices) |->
                                              [n |-> top.n + 1,
                                               combo |-> top.combo \o <<choices[i]>>]],
                                   candidate_herbs)

\* the loop with a yield at every depth, not only at the leaves
RECURSIVE RunStack_EveryDepth(_, _)
RunStack_EveryDepth(stack, candidate_herbs) ==
    IF stack = <<>> THEN <<>>
    ELSE LET top == stack[Len(stack)]
             rest == SubSeq(stack, 1, Len(stack) - 1)
         IN IF top.n >= max_sformulas \/ top.n >= Len(candidate_herbs)
            THEN (IF top.combo # <<>> THEN <<top.combo>> ELSE <<>>)
                 \o RunStack_EveryDepth(rest, candidate_herbs)
            ELSE LET choices == Reverse(herb_sformulas[candidate_herbs[top.n + 1]])
                 IN (IF top.n >= 1 THEN <<top.combo>> ELSE <<>>)
                    \o RunStack_EveryDepth(rest \o [i \in 1..Len(choices) |->
                                              [n |-> top.n + 1,
                                               combo |-> top.combo \o <<choices[i]>>]],
                                           candidate_herbs)

\* the while loop of generate_combinations_for_sformulas: pop, yield or push
RECURSIVE RunStack(_, _)
RunStack(stack, candidate_herbs) ==
    IF stack = <<>> THEN <<>>
    ELSE LET top == stack[Len(stack)]
             rest == SubSeq(stack, 1, Len(stack) - 1)
         IN IF top.n >= max_sformulas \/ top.n >= Len(candidate_herbs)
            THEN (IF top.combo # <<>> THEN <<top.combo>> ELSE <<>>)
                 \o RunStack(rest, candidate_herbs)
            ELSE LET choices == Reverse(herb_sformulas[candidate_herbs[top.n + 1]])
                 IN RunStack(rest \o [i \in 1..Len(choices) |->
                                        [n |-> top.n + 1,
                                         combo |-> top.combo \o <<choices[i]>>]],
                             candidate_herbs)

\* target minus combined, per target herb in the target's order, as sort items
remaining_composition(combo, dosages) ==
    LET combined == get_formula_composition(combo, dosages)
    IN [i \in 1..Len(target_composition) |->
          [k |-> <<target_composition[i][2]
                     - Amount(combined, target_composition[i][1]), 1>>,
           herb |-> target_composition[i][1]]]

generate_combinations_for_sformulas_Unsorted(combo, dosages) ==
    LET weighted_herbs == remaining_composition(combo, dosages)
        candidates == SelectSeq(weighted_herbs,
                         LAMBDA item : /\ item.herb \in DOMAIN herb_sformulas
                                       /\ Round(item.k[1]) > 0)
        candidate_herbs == [i \in 1..Len(candidates) |-> candidates[i].herb]
    IN RunStack(<< [n |-> 0, combo |-> combo] >>, candidate_herbs)

\* generate_combinations_for_sformulas(combo, dosages), as the sequence it yields
generate_combinations_for_sformulas(combo, dosages) ==
    LET weighted_herbs == SortDesc(remaining_composition(combo, dosages))
        candidates == SelectSeq(weighted_herbs,
                         LAMBDA item : /\ item.herb \in DOMAIN herb_sformulas
                                       /\ Round(item.k[1]) > 0)
        candidate_herbs == [i \in 1..Len(candidates) |-> candidates[i].herb]
    IN RunStack(<< [n |-> 0, combo |-> combo] >>, candidate_herbs)

\* ------------------------------------------------------------ beam
\* main_herb_threshold = 0.6, as <<numerator, denominator>>
main_herb_threshold == <<3, 5>>

\* top_n = self.DEFAULT_TOP_N if top_n is None else top_n
TopN == IF top_n = <<>> THEN DEFAULT_TOP_N ELSE top_n[1]

\* the beam width of the cached property (line 341), whatever top_n is
beam_width_Default ==
    Max(Ceil(beam_width_factor[1] * DEFAULT_TOP_N, beam_width_factor[2]), 1)

\* _calculate_beam_width(top_n)
beam_width == Max(Ceil(beam_width_factor[1] * TopN, beam_width_factor[2]), 1)

\* the first candidate with a match of 0.0
InitialCandidate_ZeroMatch ==
    [depth |-> 0, match_pct |-> 0, combo |-> <<>>, dosages |-> <<>>]

\* the first candidate of generate_combinations: (0, 100.0, (), ())
InitialCandidate ==
    [depth |-> 0, match_pct |-> 100 * Scale, combo |-> <<>>, dosages |-> <<>>]

\* the for loop of _calculate_main_herb: the shortest prefix of weighted_herbs
\* whose weight reaches the threshold
RECURSIVE MainPrefix(_, _, _)
MainPrefix(weighted_herbs, weight, total) ==
    IF weighted_herbs = <<>> THEN {}
    ELSE LET item == Head(weighted_herbs)
             w == weight + item.k[1]
         IN {item.herb}
            \cup (IF w * main_herb_threshold[2] >= main_herb_threshold[1] * total
                  THEN {}
                  ELSE MainPrefix(Tail(weighted_herbs), w, total))

_calculate_main_herb(combo, dosages) ==
    LET remaining == remaining_composition(combo, dosages)
        fixed == [i \in 1..Len(remaining) |->
                    [k |-> <<Round(remaining[i].k[1]), 1>>, herb |-> remaining[i].herb]]
        weighted_herbs == SortDesc(SelectSeq(fixed, LAMBDA item : item.k[1] > 0))
        total == SeqSum([i \in 1..Len(weighted_herbs) |-> weighted_herbs[i].k[1]])
    IN MainPrefix(weighted_herbs, 0, total)

\* _calculate_formula_score, as <<weight, total>>
_calculate_formula_score(formula, main_herbs) ==
    LET weight == SeqSum([i \in 1..Len(HerbOrder) |->
                    IF HerbOrder[i] \in DOMAIN database[formula]
                       /\ HerbOrder[i] \in main_herbs
                    THEN database[formula][HerbOrder[i]] ELSE 0])
        total == SeqSum([i \in 1..Len(HerbOrder) |->
                    IF HerbOrder[i] \in DOMAIN database[formula]
                    THEN database[formula][HerbOrder[i]] ELSE 0])
    IN IF total > 0 THEN <<weight, total>> ELSE <<0, 1>>

\* a pool of the pool_size recipes with the lowest score
generate_heuristic_candidates_Smallest(combo, dosages, pool_size, formulas) ==
    LET main_herbs == _calculate_main_herb(combo, dosages)
        scored == [i \in 1..Len(formulas) |->
                     [k |-> _calculate_formula_score(formulas[i], main_herbs),
                      formula |-> formulas[i]]]
        candidate_formulas == Take(Reverse(SortDesc(scored)), Max(pool_size, 0))
    IN [i \in 1..Len(candidate_formulas) |-> candidate_formulas[i].formula]

\* generate_heuristic_candidates(combo, dosages, pool_size, gen)
generate_heuristic_candidates(combo, dosages, pool_size, formulas) ==
    LET main_herbs == _calculate_main_herb(combo, dosages)
        scored == [i \in 1..Len(formulas) |->
                     [k |-> _calculate_formula_score(formulas[i], main_herbs),
                      formula |-> formulas[i]]]
        candidate_formulas == nlargest(pool_size, scored)
    IN [i \in 1..Len(candidate_formulas) |-> candidate_formulas[i].formula]

\* a beam that extends with every complex recipe of the catalog, related and
\* allowed or not
ExtensionPool_Catalog(combo, dosages) ==
    SelectSeq(CatalogOrder, LAMBDA f : IsComplex(f) /\ f \notin Range(combo))

\* the recipes generate_combinations_at_depth tries on a candidate (lines 388-392)
ExtensionPool(combo, dosages) ==
    LET others == SelectSeq(cformulas, LAMBDA f : f \notin Range(combo))
    IN IF beam_multiplier[1] > 0
       THEN generate_heuristic_candidates(
                combo, dosages,
                Ceil(beam_width * beam_multiplier[1], beam_multiplier[2]), others)
       ELSE others

\* ------------------------------------------------------------ inputs of a query
Algorithms == {"exhaustive", "beam", "greedy"}

\* the keyword options cmd_search passes that name dose bounds
DoseOptions ==
    {"min_cformula_dose", "min_sformula_dose", "max_cformula_dose", "max_sformula_dose"}

\* the keyword options passed besides those the variables hold: none, or the
\* dose bounds
OptsChoices == { {}, DoseOptions }

\* the keyword parameters FormulaSearcher.__init__ and
\* BeamFormulaSearcher.__init__ declare
Declared ==
    {"excludes", "max_cformulas", "max_sformulas", "penalty_factor", "places",
     "beam_width_factor", "beam_multiplier", "main_herb_threshold"}

PenaltyChoices == {2}

MaxCformulasChoices == 0..2

MaxSformulasChoices == 0..2

\* the argument top_n of find_best_matches: None, or a number
TopNChoices == {<<>>, <<0>>, <<1>>, <<2>>}

BeamWidthFactors == {<<1, 2>>, <<2, 1>>}

BeamMultipliers == {<<0, 1>>, <<1, 1>>, <<3, 1>>}

\* ------------------------------------------------------------ the query
Idle == [input |-> <<>>, combo |-> <<>>, dosages |-> <<>>, match_pct |-> 0,
         ret |-> "none", status |-> "idle"]

NoLocals == [combo |-> <<>>, dosages |-> <<>>, match_pct |-> 0,
             extended |-> <<>>, next |-> 1]

NewGenerator == [last |-> <<>>, i |-> 1, depth |-> 0, candidates |-> << InitialCandidate >>,
                 ci |-> 0, pool |-> <<>>, out |-> <<>>, keys |-> {}]

NoCall == [fn |-> "none"]

NoReference == [set |-> FALSE, opt_calls |-> <<>>, produced |-> <<>>, found |-> <<>>,
                matches |-> <<>>]

\* nothing has run yet
Fresh ==
    /\ top_n = <<>>
    /\ evaluate_cache = <<>>
    /\ opt_calls = <<>>
    /\ faults = 0
    /\ gen = NewGenerator
    /\ ev = Idle
    /\ fm = NoLocals
    /\ combos = {}
    /\ produced = <<>>
    /\ found = <<>>
    /\ matches = <<>>
    /\ error = "none"
    /\ call = NoCall
    /\ reference = NoReference

\* the arguments of a query, before find_best_matches is called
Init ==
    /\ algorithm \in Algorithms
    /\ opts \in OptsChoices
    /\ penalty_factor \in PenaltyChoices
    /\ target_composition \in Targets
    /\ excludes \in ExcludeSets
    /\ max_cformulas \in MaxCformulasChoices
    /\ max_sformulas \in MaxSformulasChoices
    /\ beam_width_factor \in
         (IF algorithm = "beam" THEN BeamWidthFactors ELSE {<<2, 1>>})
    /\ beam_multiplier \in
         (IF algorithm = "beam" THEN BeamMultipliers ELSE {<<3, 1>>})
    /\ pc = "new"
    /\ Fresh

try_except_Missing == {"find_matches", "generate_combinations_at_depth"}

\* the call sites of evaluate_combination that catch ValueError
try_except == {"find_matches", "find_matches_extended", "generate_combinations_at_depth"}

\* heapq.nlargest(n, items, key=lambda x: x[match_pct])
nlargest_by_match(n, items) ==
    LET keyed == [i \in 1..Len(items) |-> [k |-> <<items[i].match_pct, 1>>, v |-> items[i]]]
        top == nlargest(n, keyed)
    IN [i \in 1..Len(top) |-> top[i].v]

\* a call of evaluate_combination(combo) from the site ret
Evaluate(combo, ret) ==
    /\ pc' = "eval"
    /\ ev' = [input |-> combo, combo |-> combo, dosages |-> <<>>, match_pct |-> 0,
              ret |-> ret, status |-> "running"]

\* find_matches, lines 107-115: the loop body for the generated combo
StartCombo(combo) ==
    IF combo # <<>>
    THEN /\ Evaluate(combo, "find_matches")
         /\ fm' = [fm EXCEPT !.combo = combo]
    ELSE /\ pc' = "supplement"
         /\ ev' = ev
         /\ fm' = [fm EXCEPT !.combo = combo, !.dosages = <<>>,
                             !.extended = generate_combinations_for_sformulas(combo, <<>>),
                             !.next = 1]

Yield_NoDedup(match_pct, combo, dosages) ==
    LET item == [match_pct |-> match_pct, combo |-> combo, dosages |-> dosages]
    IN /\ produced' = Append(produced, item)
       /\ combos' = combos \cup {Key(combo)}
       /\ found' = Append(found, item)

\* find_unique_matches, lines 97-104, for one result of find_matches
Yield(match_pct, combo, dosages) ==
    LET item == [match_pct |-> match_pct, combo |-> combo, dosages |-> dosages]
    IN /\ produced' = Append(produced, item)
       /\ IF Key(combo) \in combos
          THEN UNCHANGED <<combos, found>>
          ELSE /\ combos' = combos \cup {Key(combo)}
               /\ found' = Append(found, item)

Call_Unchecked(n) ==
    /\ pc = "new"
    /\ top_n' = n
    /\ IF opts \ Declared # {}
       THEN /\ error' = "TypeError"
            /\ pc' = "failed"
            /\ UNCHANGED <<evaluate_cache, combos, gen>>
       ELSE IF TopN' <= 0
       THEN /\ pc' = "done"
            /\ UNCHANGED <<error, evaluate_cache, combos, gen>>
       ELSE /\ pc' = "gen"
            /\ evaluate_cache' = <<>>
            /\ combos' = {}
            /\ gen' = NewGenerator
            /\ error' = error
    /\ matches' = <<>>
    /\ UNCHANGED <<algorithm, opts, penalty_factor, target_composition, excludes,
                   max_cformulas, max_sformulas, beam_width_factor, beam_multiplier,
                   opt_calls, faults, ev, fm, produced, found, call, reference>>

\* the module-level find_best_matches(database, target_composition, top_n,
\* algorithm, **opts), and the searcher's find_best_matches(top_n) it calls
Call(n) ==
    /\ pc = "new"
    /\ top_n' = n
    /\ IF algorithm \notin {"beam", "exhaustive"}
       THEN \* line 67
            /\ error' = "ValueError"
            /\ pc' = "failed"
            /\ UNCHANGED <<evaluate_cache, combos, gen>>
       ELSE IF opts \ Declared # {}
       THEN \* lines 61 and 64: __init__ got an unexpected keyword argument
            /\ error' = "TypeError"
            /\ pc' = "failed"
            /\ UNCHANGED <<evaluate_cache, combos, gen>>
       ELSE IF TopN' <= 0
       THEN \* nlargest(0, gen) never advances the generator
            /\ pc' = "done"
            /\ UNCHANGED <<error, evaluate_cache, combos, gen>>
       ELSE /\ pc' = "gen"
            /\ evaluate_cache' = <<>>
            /\ combos' = {}
            /\ gen' = NewGenerator
            /\ error' = error
    /\ matches' = <<>>
    /\ UNCHANGED <<algorithm, opts, penalty_factor, target_composition, excludes,
                   max_cformulas, max_sformulas, beam_width_factor, beam_multiplier,
                   opt_calls, faults, ev, fm, produced, found, call, reference>>

\* find_best_matches is called with a permitted top_n
FindBestMatches == \E n \in TopNChoices : Call(n)

\* ExhaustiveFormulaSearcher.generate_combinations yields its next combination
ExhaustiveNext ==
    /\ pc = "gen"
    /\ algorithm = "exhaustive"
    /\ gen.i <= Len(ExhaustiveCombinations)
    /\ gen' = [gen EXCEPT !.i = @ + 1, !.last = ExhaustiveCombinations[gen.i]]
    /\ StartCombo(ExhaustiveCombinations[gen.i])
    /\ UNCHANGED <<config, error, call, evaluate_cache, opt_calls, faults, combos, produced, found,
                   matches>>

\* ---- evaluate_combination: one calculate_match and one pass of the loop
Continue_NoStrip(result) ==
    IF ~result.ok
    THEN /\ ev' = [ev EXCEPT !.status = "raised"]
         /\ pc' = ev.ret
    ELSE /\ ev' = [ev EXCEPT !.dosages = RoundAll(result.dosages),
                             !.match_pct = result.match_pct,
                             !.status = "returned"]
         /\ pc' = ev.ret

\* lines 274-290 for the result calculate_match gave
Continue(result) ==
    IF ~result.ok
    THEN /\ ev' = [ev EXCEPT !.status = "raised"]
         /\ pc' = ev.ret
    ELSE LET dosages == RoundAll(result.dosages)
             non_zero_mask == [i \in 1..Len(dosages) |-> dosages[i] # 0]
         IN IF \A i \in 1..Len(dosages) : non_zero_mask[i]
            THEN /\ ev' = [ev EXCEPT !.dosages = dosages,
                                     !.match_pct = result.match_pct,
                                     !.status = "returned"]
                 /\ pc' = ev.ret
            ELSE /\ ev' = [ev EXCEPT !.combo = Mask(ev.combo, non_zero_mask),
                                     !.dosages = Mask(dosages, non_zero_mask),
                                     !.match_pct = result.match_pct]
                 /\ pc' = "eval"

\* calculate_match: the key is in evaluate_cache
CalculateMatchCached ==
    /\ pc = "eval"
    /\ Key(ev.combo) \in DOMAIN evaluate_cache
    /\ Continue(evaluate_cache[Key(ev.combo)])
    /\ UNCHANGED <<config, error, call, evaluate_cache, opt_calls, faults, gen, fm, combos,
                   produced, found, matches>>

\* calculate_match of the empty combination
CalculateMatchEmpty ==
    /\ pc = "eval"
    /\ Key(ev.combo) \notin DOMAIN evaluate_cache
    /\ ev.combo = <<>>
    /\ evaluate_cache' = Cached(evaluate_cache, Key(ev.combo), EmptyMatch)
    /\ Continue(EmptyMatch)
    /\ UNCHANGED <<config, error, call, opt_calls, faults, gen, fm, combos, produced, found, matches>>

\* minimize(..., method='SLSQP') is a deterministic procedure: a query that
\* repeats an earlier one gets, for a set of recipes the earlier one evaluated,
\* the outcome the earlier one got
Repeats(combo, ok, x) ==
    \A j \in 1..Len(reference.opt_calls) :
       LET r == reference.opt_calls[j]
       IN Key(r.combo) = Key(combo) =>
            /\ r.ok = ok
            /\ ok => \A a \in 1..Len(r.combo), b \in 1..Len(combo) :
                        r.combo[a] = combo[b] => r.x[a] = x[b]

\* calculate_match, the optimizer succeeds
CalculateMatchOptimized ==
    /\ pc = "eval"
    /\ Key(ev.combo) \notin DOMAIN evaluate_cache
    /\ ev.combo # <<>>
    /\ \E x \in Minimizers(ev.combo) :
         LET result == calculate_match_of(x, ev.combo)
         IN /\ Repeats(ev.combo, TRUE, x)
            /\ evaluate_cache' = Cached(evaluate_cache, Key(ev.combo), result)
            /\ opt_calls' = Append(opt_calls, [combo |-> ev.combo, input |-> ev.input,
                                            ok |-> TRUE, x |-> x])
            /\ Continue(result)
    /\ UNCHANGED <<config, error, call, faults, gen, fm, combos, produced, found, matches>>

\* calculate_match, the optimizer fails: find_best_dosages raises ValueError
CalculateMatchFailed ==
    /\ pc = "eval"
    /\ Key(ev.combo) \notin DOMAIN evaluate_cache
    /\ ev.combo # <<>>
    /\ faults < MaxFaults
    /\ Repeats(ev.combo, FALSE, <<>>)
    /\ faults' = faults + 1
    /\ evaluate_cache' = Cached(evaluate_cache, Key(ev.combo), Failure)
    /\ opt_calls' = Append(opt_calls, [combo |-> ev.combo, input |-> ev.input,
                                       ok |-> FALSE, x |-> <<>>])
    /\ Continue(Failure)
    /\ UNCHANGED <<config, error, call, gen, fm, combos, produced, found, matches>>

\* ---- find_matches
\* line 110 returns or raises
FindMatchesEvaluated ==
    /\ pc = "find_matches"
    /\ IF ev.status = "raised"
       THEN /\ pc' = IF "find_matches" \in try_except THEN "gen" ELSE "raised"
            /\ fm' = fm
       ELSE /\ pc' = "supplement"
            /\ fm' = [combo |-> ev.combo, dosages |-> ev.dosages,
                      match_pct |-> ev.match_pct,
                      extended |-> generate_combinations_for_sformulas(ev.combo, ev.dosages),
                      next |-> 1]
    /\ ev' = Idle
    /\ UNCHANGED <<config, error, call, evaluate_cache, opt_calls, faults, gen, combos, produced,
                   found, matches>>

\* lines 117-124: the next combination of the supplement, or the end of the loop
Supplement ==
    /\ pc = "supplement"
    /\ IF fm.next > Len(fm.extended)
       THEN /\ pc' = "gen"
            /\ UNCHANGED <<ev, fm, combos, produced, found>>
       ELSE LET extended_combo == fm.extended[fm.next]
            IN /\ fm' = [fm EXCEPT !.next = @ + 1]
               /\ IF extended_combo # fm.combo
                  THEN /\ Evaluate(extended_combo, "find_matches_extended")
                       /\ UNCHANGED <<combos, produced, found>>
                  ELSE /\ Yield(fm.match_pct, extended_combo, fm.dosages)
                       /\ pc' = "supplement"
                       /\ ev' = ev
    /\ UNCHANGED <<config, error, call, evaluate_cache, opt_calls, faults, gen, matches>>

\* line 120 returns or raises
FindMatchesExtendedEvaluated ==
    /\ pc = "find_matches_extended"
    /\ IF ev.status = "raised"
       THEN /\ pc' = IF "find_matches_extended" \in try_except
                     THEN "supplement" ELSE "raised"
            /\ UNCHANGED <<fm, combos, produced, found>>
       ELSE /\ pc' = "supplement"
            /\ fm' = [fm EXCEPT !.dosages = ev.dosages, !.match_pct = ev.match_pct]
            /\ Yield(ev.match_pct, ev.combo, ev.dosages)
    /\ ev' = Idle
    /\ UNCHANGED <<config, error, call, evaluate_cache, opt_calls, faults, gen, matches>>

\* ---- BeamFormulaSearcher.generate_combinations
NonFinal == gen.depth < max_cformulas - 1

\* generate_unique_combinations_at_depth without the test of lines 373-375
Emit_NoDedup(item, g) ==
    IF NonFinal
    THEN /\ gen' = [g EXCEPT !.keys = @ \cup {Key(item.combo)}, !.out = Append(@, item)]
         /\ pc' = "gen"
         /\ UNCHANGED <<ev, fm>>
    ELSE /\ gen' = [g EXCEPT !.keys = @ \cup {Key(item.combo)}, !.last = item.combo]
         /\ StartCombo(item.combo)

\* generate_unique_combinations_at_depth for one item of the layer, and what
\* consumes it: nlargest (a non-final layer) or find_matches (the final one)
Emit(item, g) ==
    IF Key(item.combo) \in g.keys
    THEN /\ gen' = g
         /\ pc' = "gen"
         /\ UNCHANGED <<ev, fm>>
    ELSE IF NonFinal
    THEN /\ gen' = [g EXCEPT !.keys = @ \cup {Key(item.combo)}, !.out = Append(@, item)]
         /\ pc' = "gen"
         /\ UNCHANGED <<ev, fm>>
    ELSE /\ gen' = [g EXCEPT !.keys = @ \cup {Key(item.combo)}, !.last = item.combo]
         /\ StartCombo(item.combo)

\* generate_combinations_at_depth without the test of lines 385-386
BeamPass_ExtendAll ==
    /\ pc = "gen"
    /\ algorithm = "beam"
    /\ gen.pool = <<>>
    /\ gen.ci < Len(gen.candidates)
    /\ LET item == gen.candidates[gen.ci + 1]
       IN IF max_cformulas <= 0
          THEN /\ gen' = [gen EXCEPT !.ci = @ + 1, !.last = item.combo]
               /\ StartCombo(item.combo)
          ELSE Emit(item, [gen EXCEPT !.ci = @ + 1,
                                      !.pool = ExtensionPool(item.combo, item.dosages)])
    /\ UNCHANGED <<config, error, call, evaluate_cache, opt_calls, faults, combos, produced, found,
                   matches>>

\* generate_combinations_at_depth, lines 381-392: the next candidate is passed on
BeamPass ==
    /\ pc = "gen"
    /\ algorithm = "beam"
    /\ gen.pool = <<>>
    /\ gen.ci < Len(gen.candidates)
    /\ LET item == gen.candidates[gen.ci + 1]
       IN IF max_cformulas <= 0
          THEN \* no layer: line 365 reads the initial list
               /\ gen' = [gen EXCEPT !.ci = @ + 1, !.last = item.combo]
               /\ StartCombo(item.combo)
          ELSE Emit(item, [gen EXCEPT !.ci = @ + 1,
                                      !.pool = IF item.depth < gen.depth THEN <<>>
                                               ELSE ExtensionPool(item.combo, item.dosages)])
    /\ UNCHANGED <<config, error, call, evaluate_cache, opt_calls, faults, combos, produced, found,
                   matches>>

\* lines 395-399: the candidate is extended by the next recipe of its pool
BeamExtend ==
    /\ pc = "gen"
    /\ algorithm = "beam"
    /\ gen.pool # <<>>
    /\ gen' = [gen EXCEPT !.pool = Tail(@)]
    /\ Evaluate(gen.candidates[gen.ci].combo \o <<Head(gen.pool)>>,
                "generate_combinations_at_depth")
    /\ UNCHANGED <<config, error, call, evaluate_cache, opt_calls, faults, fm, combos, produced,
                   found, matches>>

\* line 398 returns or raises
BeamExtended ==
    /\ pc = "generate_combinations_at_depth"
    /\ IF ev.status = "raised"
       THEN /\ pc' = IF "generate_combinations_at_depth" \in try_except
                     THEN "gen" ELSE "raised"
            /\ ev' = Idle
            /\ UNCHANGED <<gen, fm>>
       ELSE Emit([depth |-> gen.depth + 1, match_pct |-> ev.match_pct,
                  combo |-> ev.combo, dosages |-> ev.dosages], gen)
    /\ UNCHANGED <<config, error, call, evaluate_cache, opt_calls, faults, combos, produced, found,
                   matches>>

\* lines 355-361: a non-final layer is exhausted and pruned to beam_width
BeamPrune ==
    /\ pc = "gen"
    /\ algorithm = "beam"
    /\ NonFinal
    /\ gen.pool = <<>>
    /\ gen.ci = Len(gen.candidates)
    /\ gen' = [gen EXCEPT !.candidates = nlargest_by_match(beam_width, gen.out),
                          !.depth = @ + 1, !.ci = 0, !.out = <<>>, !.keys = {}]
    /\ UNCHANGED <<config, error, call, evaluate_cache, opt_calls, faults, pc, ev, fm, combos,
                   produced, found, matches>>

\* generate_combinations has nothing more to yield
Exhausted ==
    IF algorithm = "exhaustive"
    THEN gen.i > Len(ExhaustiveCombinations)
    ELSE ~NonFinal /\ gen.pool = <<>> /\ gen.ci = Len(gen.candidates)

\* find_best_matches returns heapq.nlargest(top_n, gen, key=match_pct)
Return ==
    /\ pc = "gen"
    /\ Exhausted
    /\ matches' = nlargest_by_match(TopN, found)
    /\ pc' = "done"
    /\ UNCHANGED <<config, error, call, evaluate_cache, opt_calls, faults, gen, ev, fm, combos,
                   produced, found>>

Next ==
    \/ FindBestMatches
    \/ ExhaustiveNext
    \/ CalculateMatchCached
    \/ CalculateMatchEmpty
    \/ CalculateMatchOptimized
    \/ CalculateMatchFailed
    \/ FindMatchesEvaluated
    \/ Supplement
    \/ FindMatchesExtendedEvaluated
    \/ BeamPass
    \/ BeamExtend
    \/ BeamExtended
    \/ BeamPrune
    \/ Return

Spec == Init /\ [][Next]_vars

\* ---- the same query with both algorithms
\* an exhaustive query; the beam parameters are kept for the second query
\* (lines 55-58 take them out of the options of the exhaustive searcher)
InitBoth ==
    /\ algorithm = "exhaustive"
    /\ opts = {}
    /\ penalty_factor \in PenaltyChoices
    /\ target_composition \in Targets
    /\ excludes \in ExcludeSets
    /\ max_cformulas \in MaxCformulasChoices
    /\ max_sformulas \in MaxSformulasChoices
    /\ beam_width_factor \in BeamWidthFactors
    /\ beam_multiplier \in BeamMultipliers
    /\ pc = "new"
    /\ Fresh

\* the module-level find_best_matches is called again with the same catalog,
\* target, options and top_n and algorithm='beam': a new searcher, a new cache
BeamAgain ==
    /\ pc = "done"
    /\ algorithm = "exhaustive"
    /\ error = "none"
    /\ ~reference.set
    /\ reference' = [set |-> TRUE, opt_calls |-> opt_calls, produced |-> produced,
                     found |-> found, matches |-> matches]
    /\ algorithm' = "beam"
    /\ pc' = IF TopN <= 0 THEN "done" ELSE "gen"
    /\ evaluate_cache' = <<>>
    /\ opt_calls' = <<>>
    /\ faults' = 0
    /\ gen' = NewGenerator
    /\ ev' = Idle
    /\ fm' = NoLocals
    /\ combos' = {}
    /\ produced' = <<>>
    /\ found' = <<>>
    /\ matches' = <<>>
    /\ UNCHANGED <<opts, penalty_factor, target_composition, excludes, max_cformulas,
                   max_sformulas, top_n, beam_width_factor, beam_multiplier, error, call>>

NextBoth ==
    \/ FindBestMatches
    \/ ExhaustiveNext
    \/ CalculateMatchCached
    \/ CalculateMatchEmpty
    \/ CalculateMatchOptimized
    \/ CalculateMatchFailed
    \/ FindMatchesEvaluated
    \/ Supplement
    \/ FindMatchesExtendedEvaluated
    \/ BeamPass
    \/ BeamExtend
    \/ BeamExtended
    \/ BeamPrune
    \/ Return
    \/ BeamAgain

SpecBoth == InitBoth /\ [][NextBoth]_vars

\* ---- cli.search in non-raw mode, and the query it starts
\* database.cformulas of FormulaDatabase: the complex recipes of the catalog,
\* the ones with more than one component
database_cformulas == {f \in Recipes : Cardinality(DOMAIN database[f]) > 1}

\* the names a caller may give: recipes of the catalog and one unknown name
ItemChoices ==
    { << <<"A", 4>> >>,
      << <<"A", 2>>, <<"B", 2>> >>,
      << <<"A", 2>>, <<"s3", 2>> >>,
      << <<"s3", 2>> >>,
      << <<"A", 2>>, <<"A", 2>> >>,
      << <<"X", 2>> >>,
      << <<"A", 2>>, <<"X", 2>> >> }

CallerExcludes == { {}, {"C"} }

\* target_composition[herb] = target_composition.get(herb, 0) + amount
Accumulate(composition, herb, amount) ==
    IF herb \in Herbs(composition)
    THEN [i \in 1..Len(composition) |->
            IF composition[i][1] = herb
            THEN <<herb, composition[i][2] + amount>> ELSE composition[i]]
    ELSE Append(composition, <<herb, amount>>)

\* lines 139-141 for one known formula: its herbs in the order of its composition
RECURSIVE AddFormula(_, _, _, _)
AddFormula(composition, formula, dosage, h) ==
    IF h > Len(HerbOrder) THEN composition
    ELSE IF HerbOrder[h] \in DOMAIN database[formula]
    THEN AddFormula(Accumulate(composition, HerbOrder[h],
                               dosage * database[formula][HerbOrder[h]]),
                    formula, dosage, h + 1)
    ELSE AddFormula(composition, formula, dosage, h + 1)

\* the loop of lines 135-143 over the first n items
RECURSIVE search_target(_, _)
search_target(items, n) ==
    IF n = 0 THEN <<>>
    ELSE IF items[n][1] \in Recipes
    THEN AddFormula(search_target(items, n - 1), items[n][1], items[n][2], 1)
    ELSE search_target(items, n - 1)

search_excludes_CallerOnly(items, caller_excludes) == caller_excludes

\* lines 123 and 137-138: excludes.add(formula) for a complex input formula
search_excludes(items, caller_excludes) ==
    caller_excludes \cup
      {items[i][1] : i \in {j \in 1..Len(items) :
                               /\ items[j][1] \in Recipes
                               /\ items[j][1] \in database_cformulas}}

\* lines 142-143
search_unknowns(items) ==
    {items[i][1] : i \in {j \in 1..Len(items) : items[j][1] \notin Recipes}}

\* the arguments cli.search is about to be called with
InitCli ==
    /\ algorithm \in {"exhaustive", "beam"}
    /\ opts \in OptsChoices
    /\ penalty_factor \in PenaltyChoices
    /\ target_composition = <<>>
    /\ excludes = {}
    /\ max_cformulas \in MaxCformulasChoices
    /\ max_sformulas \in MaxSformulasChoices
    /\ beam_width_factor \in
         (IF algorithm = "beam" THEN BeamWidthFactors ELSE {<<2, 1>>})
    /\ beam_multiplier \in
         (IF algorithm = "beam" THEN BeamMultipliers ELSE {<<3, 1>>})
    /\ pc = "cli"
    /\ Fresh

\* cli.search(database, composition, excludes, raw=False, **opts) up to its call
\* of searcher.find_best_matches (line 172), or to its return at line 157
Search ==
    /\ pc = "cli"
    /\ \E items \in ItemChoices, caller_excludes \in CallerExcludes :
         /\ call' = [fn |-> "search", items |-> items, excludes |-> caller_excludes,
                     unknowns |-> search_unknowns(items)]
         /\ target_composition' = search_target(items, Len(items))
         /\ excludes' = search_excludes(items, caller_excludes)
         /\ pc' = IF search_unknowns(items) # {} THEN "unknown" ELSE "new"
    /\ UNCHANGED <<algorithm, opts, penalty_factor, max_cformulas, max_sformulas, top_n,
                   beam_width_factor, beam_multiplier, reference, evaluate_cache,
                   opt_calls, faults, gen, ev, fm, combos, produced, found, matches,
                   error>>

NextCli ==
    \/ Search
    \/ FindBestMatches
    \/ ExhaustiveNext
    \/ CalculateMatchCached
    \/ CalculateMatchEmpty
    \/ CalculateMatchOptimized
    \/ CalculateMatchFailed
    \/ FindMatchesEvaluated
    \/ Supplement
    \/ FindMatchesExtendedEvaluated
    \/ BeamPass
    \/ BeamExtend
    \/ BeamExtended
    \/ BeamPrune
    \/ Return

SpecCli == InitCli /\ [][NextCli]_vars

\* ---- single calls of the methods of a constructed searcher
UnitTargets == Targets \cup { << <<"h1", 0>>, <<"h4", 0>> >>, << <<"h3", 3>>, <<"h2", 4>> >> }

UnitMaxCformulas == 0..3

UnitMaxSformulas == 0..3

UnitPenalties == 0..2

\* combinations to call calculate_delta and the supplement with
UnitCombos ==
    { <<>>, <<"A">>, <<"C">>, <<"s2">>, <<"A", "B">>, <<"B", "A">>, <<"C", "s1">>,
      <<"s2", "s3">> }

\* deltas and variances to call calculate_match_ratio with, in fixed point
UnitDeltas == {0, 1, Scale, 2 * Scale, 2 * Scale + 1, 5 * Scale}

UnitVariances == {<<>>, <<0>>, <<Scale>>, <<2 * Scale>>}

InitUnit ==
    /\ algorithm = "exhaustive"
    /\ opts = {}
    /\ penalty_factor \in UnitPenalties
    /\ target_composition \in UnitTargets
    /\ excludes \in ExcludeSets
    /\ max_cformulas \in UnitMaxCformulas
    /\ max_sformulas \in UnitMaxSformulas
    /\ beam_width_factor = <<2, 1>>
    /\ beam_multiplier = <<3, 1>>
    /\ pc = "unit"
    /\ Fresh

\* what a single call leaves alone: everything but the record of the call
Rest == <<config, evaluate_cache, opt_calls, faults, gen, ev, fm, combos, produced,
          found, matches, error>>

\* the cached properties cformulas, sformulas, herb_sformulas are read
ComputeRelatedFormulas ==
    /\ pc = "unit"
    /\ call' = [fn |-> "_compute_related_formulas", cformulas |-> cformulas,
                sformulas |-> sformulas, herb_sformulas |-> herb_sformulas]
    /\ pc' = "called"
    /\ UNCHANGED Rest

\* list(ExhaustiveFormulaSearcher.generate_combinations())
GenerateCombinations ==
    /\ pc = "unit"
    /\ call' = [fn |-> "generate_combinations", out |-> ExhaustiveCombinations]
    /\ pc' = "called"
    /\ UNCHANGED Rest

\* list(generate_combinations_for_sformulas(combo, dosages))
GenerateCombinationsForSformulas ==
    /\ pc = "unit"
    /\ \E combo \in UnitCombos :
         \E dosages \in [1..Len(combo) -> {Round(x) : x \in 0..MaxRaw}] :
            call' = [fn |-> "generate_combinations_for_sformulas", combo |-> combo,
                     dosages |-> dosages,
                     out |-> generate_combinations_for_sformulas(combo, dosages)]
    /\ pc' = "called"
    /\ UNCHANGED Rest

\* calculate_delta(x, combo)
CalculateDelta ==
    /\ pc = "unit"
    /\ \E combo \in UnitCombos :
         \E x \in Box(Len(combo)) :
            call' = [fn |-> "calculate_delta", combo |-> combo, x |-> x,
                     out |-> calculate_delta(x, combo)]
    /\ pc' = "called"
    /\ UNCHANGED Rest

\* calculate_match_ratio(delta, variance)
CalculateMatchRatio ==
    /\ pc = "unit"
    /\ \E delta \in UnitDeltas \cup {variance} :
         \E v \in UnitVariances :
            call' = [fn |-> "calculate_match_ratio", delta |-> delta, variance |-> v,
                     out |-> calculate_match_ratio(delta, v)]
    /\ pc' = "called"
    /\ UNCHANGED Rest

NextUnit ==
    \/ ComputeRelatedFormulas
    \/ GenerateCombinations
    \/ GenerateCombinationsForSformulas
    \/ CalculateDelta
    \/ CalculateMatchRatio

SpecUnit == InitUnit /\ [][NextUnit]_vars

\* ---- queries whose parameters are out of the permitted range
MaxCformulasAny == MaxCformulasChoices \cup {-1}

MaxSformulasAny == MaxSformulasChoices \cup {-1}

PenaltyAny == PenaltyChoices \cup {-2}

BeamWidthFactorsAny == BeamWidthFactors \cup {<<0, 1>>}

TopNAny == TopNChoices \cup {<<-1>>}

\* a parameter the searcher was constructed with is out of range
OutOfRangeInit ==
    \/ penalty_factor < 0
    \/ max_cformulas < 0
    \/ max_sformulas < 0
    \/ algorithm = "beam" /\ beam_width_factor[1] <= 0

InitInvalid ==
    /\ algorithm \in {"exhaustive", "beam"}
    /\ opts = {}
    /\ penalty_factor \in PenaltyAny
    /\ target_composition \in Targets
    /\ excludes = {}
    /\ max_cformulas \in MaxCformulasAny
    /\ max_sformulas \in MaxSformulasAny
    /\ beam_width_factor \in
         (IF algorithm = "beam" THEN BeamWidthFactorsAny ELSE {<<2, 1>>})
    /\ beam_multiplier \in
         (IF algorithm = "beam" THEN BeamMultipliers ELSE {<<3, 1>>})
    /\ OutOfRangeInit
    /\ pc = "new"
    /\ Fresh

\* find_best_matches is called with any top_n
FindBestMatchesAny == \E n \in TopNAny : Call(n)

NextInvalid ==
    \/ FindBestMatchesAny
    \/ ExhaustiveNext
    \/ CalculateMatchCached
    \/ CalculateMatchEmpty
    \/ CalculateMatchOptimized
    \/ CalculateMatchFailed
    \/ FindMatchesEvaluated
    \/ Supplement
    \/ FindMatchesExtendedEvaluated
    \/ BeamPass
    \/ BeamExtend
    \/ BeamExtended
    \/ BeamPrune
    \/ Return

SpecInvalid == InitInvalid /\ [][NextInvalid]_vars

\* ------------------------------------------------------------ properties
\* every result the search has handed out so far: what find_unique_matches
\* yielded and what find_best_matches returned
Results == Range(found) \cup Range(matches)

\* evaluate_combination has just returned a result (held in ev)
Returned == ev.status = "returned"

\* C1: no result yielded by find_matches / find_unique_matches or returned by
\* find_best_matches has an empty combination.
C1_NoEmptyCombination ==
    /\ \A r \in Range(produced) : r.combo # <<>>
    /\ \A r \in Results : r.combo # <<>>

\* The successful optimizer call of this query for the members of combo.
CallsFor(combo) ==
    {j \in 1..Len(opt_calls) : opt_calls[j].ok /\ Key(opt_calls[j].combo) = Key(combo)}

\* dosages has one entry per member of combo, and entry i is the rounded dose
\* the optimizer computed for member i
Aligned(combo, dosages) ==
    /\ Len(dosages) = Len(combo)
    /\ \A i \in 1..Len(combo) :
         \E j \in CallsFor(combo) :
           \E p \in 1..Len(opt_calls[j].combo) :
             /\ opt_calls[j].combo[p] = combo[i]
             /\ dosages[i] = Round(opt_calls[j].x[p])

\* C2: every result of evaluate_combination and every result returned by
\* find_best_matches has one dosage per member, the dose the optimizer computed
\* for that member, whatever the order the members were requested in.
C2_DosagesAligned ==
    /\ Returned => Aligned(ev.combo, ev.dosages)
    /\ \A r \in Range(matches) : Aligned(r.combo, r.dosages)

\* the part of C2 about the results find_best_matches returns
C2_ReturnedAligned == \A r \in Range(matches) : Aligned(r.combo, r.dosages)

\* C3: no dosage of a result of evaluate_combination or of find_best_matches
\* is zero after rounding to places.
C3_NoZeroDosage ==
    /\ Returned => \A i \in 1..Len(ev.dosages) : Round(ev.dosages[i]) # 0
    /\ \A r \in Results : \A i \in 1..Len(r.dosages) : Round(r.dosages[i]) # 0

\* evaluate_combination returned a non-empty combination after stripping members
C3_Witness == Returned /\ ev.combo # ev.input /\ ev.combo # <<>>

\* C4: no excluded recipe is in cformulas, sformulas or herb_sformulas, is
\* generated, evaluated or optimized, or is part of a result.
C4_ExcludesHonored ==
    /\ Range(cformulas) \cap excludes = {}
    /\ Range(sformulas) \cap excludes = {}
    /\ \A herb \in DOMAIN herb_sformulas : Range(herb_sformulas[herb]) \cap excludes = {}
    /\ Key(gen.last) \cap excludes = {}
    /\ Key(ev.input) \cap excludes = {}
    /\ \A j \in 1..Len(opt_calls) : Key(opt_calls[j].combo) \cap excludes = {}
    /\ \A r \in Results \cup Range(produced) : Key(r.combo) \cap excludes = {}

\* a query that excluded a recipe related to the target has returned results
C4_Witness ==
    /\ pc = "done"
    /\ matches # <<>>
    /\ \E item \in excludes : Related(item) /\ IsComplex(item)
    /\ \E item \in excludes : Related(item) /\ ~IsComplex(item)

ComplexCount(combo) == Cardinality({i \in 1..Len(combo) : IsComplex(combo[i])})

SingleCount(combo) == Cardinality({i \in 1..Len(combo) : ~IsComplex(combo[i])})

\* C5: every combination generate_combinations yields and every combination
\* find_best_matches returns has at most max_cformulas complex recipes.
C5_MaxCformulas ==
    /\ ComplexCount(gen.last) <= max_cformulas
    /\ \A r \in Results : ComplexCount(r.combo) <= max_cformulas

\* more complex recipes were available than allowed, and a returned
\* combination uses as many as allowed
C5_Witness ==
    /\ pc = "done"
    /\ max_cformulas >= 1
    /\ Len(cformulas) > max_cformulas
    /\ \E r \in Range(matches) : ComplexCount(r.combo) = max_cformulas

\* C6: a returned combination has at most max_sformulas single recipes.
C6_MaxSformulas == \A r \in Results : SingleCount(r.combo) <= max_sformulas

\* more herbs could be supplemented than allowed, and a returned combination
\* has as many single recipes as allowed
C6_Witness ==
    /\ pc = "done"
    /\ max_sformulas >= 1
    /\ Cardinality(DOMAIN herb_sformulas) > max_sformulas
    /\ \E r \in Range(matches) : SingleCount(r.combo) = max_sformulas

\* where the result r was produced: its place in the stream of unique results
Place(r) == CHOOSE i \in 1..Len(found) : found[i] = r

\* the number of unique results the search and supplement pipeline produced
UniqueProduced == Cardinality({Key(r.combo) : r \in Range(produced)})

\* C7: find_best_matches returns min(top_n, U) results, the ones with the
\* highest match_pct, sorted non-increasing, equal ones in the order they were
\* produced; top_n = None means 5, top_n = 0 returns the empty list.
C7_TopN ==
    pc = "done" =>
      /\ Len(matches) = Min(TopN, UniqueProduced)
      /\ \A i \in 1..Len(matches) : matches[i] \in Range(found)
      /\ \A i, j \in 1..Len(matches) :
           i < j => /\ matches[i].match_pct >= matches[j].match_pct
                    /\ matches[i] # matches[j]
                    /\ matches[i].match_pct = matches[j].match_pct
                         => Place(matches[i]) < Place(matches[j])
      /\ \A r \in Range(found) \ Range(matches) :
           \A i \in 1..Len(matches) : matches[i].match_pct >= r.match_pct
      /\ top_n = <<>> => TopN = 5
      /\ top_n = <<0>> => matches = <<>>

\* the query produced more unique results than asked for, not in the order of
\* their match, two of the returned ones with the same match
C7_Witness ==
    /\ pc = "done"
    /\ Len(found) > TopN
    /\ \E i, j \in 1..Len(found) : i < j /\ found[i].match_pct < found[j].match_pct
    /\ \E i, j \in 1..Len(matches) : i < j /\ matches[i].match_pct = matches[j].match_pct

\* the first result of each membership, in the order of the stream
RECURSIVE FirstOfEach(_, _)
FirstOfEach(stream, seen) ==
    IF stream = <<>> THEN <<>>
    ELSE IF Key(Head(stream).combo) \in seen
         THEN FirstOfEach(Tail(stream), seen)
         ELSE <<Head(stream)>>
              \o FirstOfEach(Tail(stream), seen \cup {Key(Head(stream).combo)})

\* C8: no two results yielded by find_unique_matches, or returned, have the
\* same set of recipe ids; of the results find_matches produced with one
\* membership the first is the one kept.
C8_UniqueMembership ==
    /\ \A i, j \in 1..Len(found) :
         i # j => Key(found[i].combo) # Key(found[j].combo)
    /\ \A i, j \in 1..Len(matches) :
         i # j => Key(matches[i].combo) # Key(matches[j].combo)
    /\ found = FirstOfEach(produced, {})

\* find_matches produced one membership twice, and the query has returned
C8_Witness ==
    /\ pc = "done"
    /\ matches # <<>>
    /\ \E i, j \in 1..Len(produced) :
         i < j /\ Key(produced[i].combo) = Key(produced[j].combo)

\* C9: every match_pct is at most 100, because delta is never negative.
C9_MatchAtMost100 ==
    /\ \A key \in DOMAIN evaluate_cache : evaluate_cache[key].delta >= 0
    /\ Returned => ev.match_pct <= 100 * Scale
    /\ \A r \in Results : r.match_pct <= 100 * Scale

\* a perfect and an imperfect match have been returned
C9_Witness ==
    /\ pc = "done"
    /\ \E r \in Range(matches) : r.combo # <<>> /\ r.match_pct = 100 * Scale
    /\ \E r \in Range(matches) : r.match_pct > 0 /\ r.match_pct < 100 * Scale

\* C10: a failure of the optimizer never leaves find_best_matches; the
\* combination is skipped; if every optimizer call failed the result is empty.
C10_FailuresSkipped ==
    /\ pc # "raised"
    /\ (pc = "done" /\ \A j \in 1..Len(opt_calls) : ~opt_calls[j].ok) => matches = <<>>

\* the optimizer failed on a reduced combination inside the zero-stripping
\* loop, and the query went on to return results
C10_Witness ==
    /\ pc = "done"
    /\ matches # <<>>
    /\ \E j \in 1..Len(opt_calls) :
         ~opt_calls[j].ok /\ opt_calls[j].combo # opt_calls[j].input

\* the optimizer was called and failed every time, and the query returned
C10_AllFailed ==
    /\ pc = "done"
    /\ opt_calls # <<>>
    /\ \A j \in 1..Len(opt_calls) : ~opt_calls[j].ok

\* the defaults of the dose bounds cmd_search passes, in raw units: 1.0, 0.3
\* and 50.0, one rounding step being 0.1
min_cformula_dose == 10 * Quantum

min_sformula_dose == 3 * Quantum

max_cformula_dose == 500 * Quantum

max_sformula_dose == 500 * Quantum

\* C11: find_best_matches accepts the dose options, and every returned dosage
\* lies within the bounds of its recipe type.
C11_DoseBounds ==
    /\ (opts \subseteq DoseOptions /\ algorithm \in {"beam", "exhaustive"})
         => error = "none"
    /\ \A r \in Range(matches) :
         \A i \in 1..Len(r.combo) :
           IF IsComplex(r.combo[i])
           THEN r.dosages[i] >= min_cformula_dose /\ r.dosages[i] <= max_cformula_dose
           ELSE r.dosages[i] >= min_sformula_dose /\ r.dosages[i] <= max_sformula_dose

\* nothing of a search has happened: no generator step, no evaluation, no
\* optimizer call, no result
Untouched ==
    /\ gen = NewGenerator
    /\ ev = Idle
    /\ fm = NoLocals
    /\ evaluate_cache = <<>>
    /\ opt_calls = <<>>
    /\ combos = {}
    /\ produced = <<>>
    /\ found = <<>>
    /\ matches = <<>>

\* C14: with an algorithm other than 'beam' or 'exhaustive' find_best_matches
\* fails at once: the call ends in an error, no searcher is constructed (its
\* constructor's own error never shows), nothing is generated, evaluated or
\* returned.
C14_UnknownAlgorithmFails ==
    algorithm \notin {"beam", "exhaustive"} =>
      /\ pc \in {"new", "failed"}
      /\ pc = "failed" => error = "ValueError"
      /\ pc = "new" => error = "none"
      /\ Untouched

\* the call with an unknown algorithm has failed; the options were ones the
\* constructor of a searcher would have rejected
C14_Witness ==
    /\ algorithm \notin {"beam", "exhaustive"}
    /\ pc = "failed"
    /\ error = "ValueError"
    /\ opts \ Declared # {}

\* a parameter of the query is outside its permitted range
OutOfRange == OutOfRangeInit \/ (top_n # <<>> /\ top_n[1] < 0)

\* C15: a parameter outside its permitted range makes find_best_matches fail
\* with an invalid-parameter error before anything is generated or evaluated.
C15_InvalidParameterFails ==
    (OutOfRange /\ pc # "new") =>
      /\ pc = "failed"
      /\ error \notin {"none"}
      /\ Untouched

\* the place of a recipe in the catalog
Pos(item) == CHOOSE i \in 1..Len(CatalogOrder) : CatalogOrder[i] = item

InCatalogOrder(t) == \A i, j \in 1..Len(t) : i < j => Pos(t[i]) < Pos(t[j])

\* a comes before b in lexicographic catalog order (a and b of one length)
LexLess(a, b) ==
    \E k \in 1..Len(a) :
       /\ \A i \in 1..(k - 1) : a[i] = b[i]
       /\ Pos(a[k]) < Pos(b[k])

\* C16: generate_combinations of the exhaustive searcher yields every subset
\* of cformulas of size 0..min(max_cformulas, |cformulas|) exactly once, as a
\* tuple in catalog order, sizes ascending, equal sizes in lexicographic
\* order, the empty tuple first and alone when max_cformulas = 0.
C16_ExhaustiveEnumeration ==
    call.fn = "generate_combinations" =>
      LET out == call.out
          limit == Min(max_cformulas, Len(cformulas))
      IN /\ \A S \in SUBSET Range(cformulas) :
              Cardinality(S) <= limit =>
                Cardinality({i \in 1..Len(out) : Range(out[i]) = S}) = 1
         /\ \A i \in 1..Len(out) :
              /\ Range(out[i]) \subseteq Range(cformulas)
              /\ Len(out[i]) = Cardinality(Range(out[i]))
              /\ Len(out[i]) <= limit
              /\ InCatalogOrder(out[i])
         /\ \A i, j \in 1..Len(out) :
              i < j => /\ Len(out[i]) <= Len(out[j])
                       /\ Len(out[i]) = Len(out[j]) => LexLess(out[i], out[j])
         /\ out # <<>>
         /\ out[1] = <<>>
         /\ max_cformulas = 0 => out = << <<>> >>

\* three complex recipes are related, two are allowed: seven combinations
C16_Witness ==
    /\ call.fn = "generate_combinations"
    /\ Len(cformulas) = 3
    /\ max_cformulas = 2
    /\ Len(call.out) = 7

\* what the combination contributes of a herb at the given dosages
Contribution(combo, dosages, herb) ==
    SeqSum([i \in 1..Len(combo) |->
              IF herb \in DOMAIN database[combo[i]]
              THEN database[combo[i]][herb] * dosages[i] ELSE 0])

\* the single recipes of a herb that are not excluded
SinglesOf(herb) == {r \in Recipes \ excludes : DOMAIN database[r] = {herb}}

\* C17: generate_combinations_for_sformulas(combo, dosages) emits exactly the
\* tuples combo + (s_1, ..., s_m), m = min(max_sformulas, number of candidate
\* herbs), the candidate herbs being the target components with a single
\* recipe and a positive rounded remainder, by descending remainder, s_j any
\* single recipe of the j-th herb; in lexicographic catalog order; for m = 0
\* combo itself if it is not empty, else nothing.
C17_Supplement ==
    call.fn = "generate_combinations_for_sformulas" =>
      LET combo == call.combo
          out == call.out
          Rem(h) == Get(target_composition, h) - Contribution(combo, call.dosages, h)
          Cand == {h \in Herbs(target_composition) :
                     SinglesOf(h) # {} /\ Round(Rem(h)) > 0}
          m == Min(max_sformulas, Cardinality(Cand))
      IN IF m = 0
         THEN out = (IF combo # <<>> THEN <<combo>> ELSE <<>>)
         ELSE \E H \in [1..Cardinality(Cand) -> Cand] :
                /\ \A i, j \in DOMAIN H : i < j => H[i] # H[j] /\ Rem(H[i]) >= Rem(H[j])
                /\ LET Expected ==
                         {combo \o c : c \in {c \in [1..m -> Recipes] :
                                                \A j \in 1..m : c[j] \in SinglesOf(H[j])}}
                   IN /\ Range(out) = Expected
                      /\ Len(out) = Cardinality(Expected)
                      /\ \A i, j \in 1..Len(out) : i < j => LexLess(out[i], out[j])

\* a non-empty combination was supplemented for two herbs, the second of them
\* with two single recipes, the herbs not in the order of the target
C17_Witness ==
    /\ call.fn = "generate_combinations_for_sformulas"
    /\ call.combo # <<>>
    /\ Len(call.out) >= 2
    /\ Len(call.out[1]) = Len(call.combo) + 2
    /\ Pos(call.out[1][Len(call.combo) + 1]) > Pos(call.out[1][Len(call.combo) + 2])

\* seq lists the recipes of the set S, each once, in catalog order
ListsInCatalogOrder(seq, S) ==
    /\ Range(seq) = S
    /\ Len(seq) = Cardinality(S)
    /\ InCatalogOrder(seq)

\* the recipe is not excluded and has a herb the target holds an amount of
\* (in a composition a herb with amount 0 is a missing herb)
SharesWithTarget(r) ==
    /\ r \notin excludes
    /\ \E h \in DOMAIN database[r] :
         \E i \in 1..Len(target_composition) :
            target_composition[i][1] = h /\ target_composition[i][2] # 0

\* C18: cformulas is exactly the catalog recipes, in catalog order, that are
\* not excluded, have more than one component and share a component with the
\* target; sformulas the same for exactly one component; they are disjoint;
\* herb_sformulas maps a component to the catalog-ordered list of the
\* sformulas whose sole component it is.
C18_CatalogView ==
    call.fn = "_compute_related_formulas" =>
      LET C == {r \in Recipes : SharesWithTarget(r) /\ Cardinality(DOMAIN database[r]) > 1}
          S == {r \in Recipes : SharesWithTarget(r) /\ Cardinality(DOMAIN database[r]) = 1}
      IN /\ ListsInCatalogOrder(call.cformulas, C)
         /\ ListsInCatalogOrder(call.sformulas, S)
         /\ Range(call.cformulas) \cap Range(call.sformulas) = {}
         /\ DOMAIN call.herb_sformulas = UNION {DOMAIN database[r] : r \in S}
         /\ \A h \in DOMAIN call.herb_sformulas :
              ListsInCatalogOrder(call.herb_sformulas[h],
                                  {r \in S : DOMAIN database[r] = {h}})

\* a view with an excluded recipe, an unrelated recipe, a complex recipe and
\* a herb with two single recipes
C18_Witness ==
    /\ call.fn = "_compute_related_formulas"
    /\ excludes # {}
    /\ \E r \in Recipes \ excludes :
         r \notin Range(call.cformulas) \cup Range(call.sformulas)
    /\ call.cformulas # <<>>
    /\ \E h \in DOMAIN call.herb_sformulas : Len(call.herb_sformulas[h]) = 2

\* the view for a target that names herbs with amount 0 only
C18_ZeroAmountTarget ==
    /\ call.fn = "_compute_related_formulas"
    /\ \A i \in 1..Len(target_composition) : target_composition[i][2] = 0
    /\ call.cformulas = <<>>
    /\ call.sformulas = <<>>

\* the sum of f over the set S of herbs
RECURSIVE SumOver(_, _)
SumOver(S, f) ==
    IF S = {} THEN 0
    ELSE LET h == CHOOSE e \in S : TRUE IN f[h] + SumOver(S \ {h}, f)

\* the herbs of the recipes of a combination
HerbsOf(combo) == UNION {DOMAIN database[combo[i]] : i \in 1..Len(combo)}

\* the sum C19 gives for delta^2: squared differences on the target's
\* components, squared penalized amounts on the others
ClaimedSquare(x, combo) ==
    LET T == Herbs(target_composition)
        O == HerbsOf(combo) \ T
    IN SumOver(T, [h \in T |->
                     (Get(target_composition, h) - Contribution(combo, x, h)) ^ 2])
       + SumOver(O, [h \in O |-> (penalty_factor * Contribution(combo, x, h)) ^ 2])

\* out is the square root of n / Scale^2, to the precision of the fixed point
IsRootOf(out, n) == out >= 0 /\ out * out <= n /\ n < (out + 1) * (out + 1)

\* C equals the target on the target's components
OnTarget(x, combo) ==
    \A h \in Herbs(target_composition) :
       Contribution(combo, x, h) = Get(target_composition, h)

\* C19: calculate_delta(x, combo)^2 is the sum of the squared differences on
\* the target's components and of the squared penalized amounts of the other
\* components; delta is never negative; delta is zero exactly when C equals
\* the target on the target's components and is zero on every other one.
C19_Delta ==
    call.fn = "calculate_delta" =>
      /\ IsRootOf(call.out, ClaimedSquare(call.x, call.combo) * Scale * Scale)
      /\ call.out >= 0
      /\ call.out = 0 <=>
           /\ OnTarget(call.x, call.combo)
           /\ \A h \in HerbsOf(call.combo) \ Herbs(target_composition) :
                Contribution(call.combo, call.x, h) = 0

\* C19 as amended: the same, but delta is zero exactly when C equals the
\* target on the target's components and penalty_factor * C is zero on every
\* other one.
C19_DeltaAmended ==
    call.fn = "calculate_delta" =>
      /\ IsRootOf(call.out, ClaimedSquare(call.x, call.combo) * Scale * Scale)
      /\ call.out >= 0
      /\ call.out = 0 <=>
           /\ OnTarget(call.x, call.combo)
           /\ \A h \in HerbsOf(call.combo) \ Herbs(target_composition) :
                penalty_factor * Contribution(call.combo, call.x, h) = 0

\* delta is zero with penalty_factor 0 while the combination holds an amount
\* of a herb outside the target
C19_Witness ==
    /\ call.fn = "calculate_delta"
    /\ call.out = 0
    /\ penalty_factor = 0
    /\ \E h \in HerbsOf(call.combo) \ Herbs(target_composition) :
         Contribution(call.combo, call.x, h) > 0

\* a delta that is neither zero nor a whole number, with a penalized herb
C19_Penalized ==
    /\ call.fn = "calculate_delta"
    /\ penalty_factor = 2
    /\ call.out > 0
    /\ call.out % Scale # 0
    /\ \E h \in HerbsOf(call.combo) \ Herbs(target_composition) :
         Contribution(call.combo, call.x, h) > 0
    /\ ~OnTarget(call.x, call.combo)

\* the sum of the squared amounts of the target
TargetSquares ==
    LET T == Herbs(target_composition)
    IN SumOver(T, [h \in T |-> Get(target_composition, h) ^ 2])

\* the variance calculate_match_ratio uses in the recorded call: the one
\* supplied or, when none is, the square root of the sum of the squared
\* target amounts
UsedVariance ==
    IF call.variance # <<>> THEN call.variance[1]
    ELSE CHOOSE r \in 0..(TargetSquares * Scale) :
            IsRootOf(r, TargetSquares * Scale * Scale)

\* C20: calculate_match_ratio(delta, variance) is 1 - delta/variance for a
\* non-zero variance and 1 for variance 0; 1 for delta = 0, 0 for delta =
\* variance, negative for delta > variance; without a variance it uses the
\* square root of the sum of the squared target amounts.
C20_MatchRatio ==
    call.fn = "calculate_match_ratio" =>
      LET v == UsedVariance
          d == call.delta
          out == call.out
      IN /\ v = 0 => out = Scale
         /\ v # 0 =>
              /\ out * v - (v - d) * Scale < v
              /\ (v - d) * Scale - out * v < v
              /\ d = 0 => out = Scale
              /\ d = v => out = 0
              /\ d > v => out < 0
              /\ d < v => out > 0

\* a call without a variance, for a delta just above the target's variance
C20_Witness ==
    /\ call.fn = "calculate_match_ratio"
    /\ call.variance = <<>>
    /\ UsedVariance # 0
    /\ call.delta > UsedVariance
    /\ call.delta < UsedVariance + Scale
    /\ call.out < 0

\* a call with variance 0 and a delta that is not 0
C20_ZeroVariance ==
    /\ call.fn = "calculate_match_ratio"
    /\ call.variance = <<0>>
    /\ call.delta > 0
    /\ call.out = Scale

\* the target is k times the composition of the recipe R
IsMultipleOf(R, k) ==
    /\ Herbs(target_composition) = DOMAIN database[R]
    /\ \A h \in DOMAIN database[R] : Get(target_composition, h) = k * database[R][h]

\* the recipes and scalars the target is a multiple of, the scalar within the
\* optimizer's bounds
Identities ==
    {p \in Recipes \X (1..MaxRaw) : IsMultipleOf(p[1], p[2])}

Admitted(R) ==
    /\ R \notin excludes
    /\ IF IsComplex(R) THEN max_cformulas >= 1 ELSE max_sformulas >= 1

\* k is a dosage np.round(., places) keeps, and the amounts of k times a single
\* recipe stay positive when rounded (line 306)
Representable(R, k) ==
    /\ Round(k) = k
    /\ IsComplex(R) \/ \A h \in DOMAIN database[R] : Round(k * database[R][h]) > 0

\* the optimizer did not fail on the combination (R,)
ConvergedOn(R) ==
    \A j \in 1..Len(opt_calls) : opt_calls[j].combo = <<R>> => opt_calls[j].ok

\* the query generates (R,) whatever the catalog: the exhaustive enumeration,
\* the supplement of the empty combination for a single recipe, or a beam of
\* one layer that extends with every related complex recipe
Generates(R) ==
    \/ algorithm = "exhaustive"
    \/ ~IsComplex(R)
    \/ max_cformulas = 1 /\ beam_multiplier[1] = 0

IsIdentityResult(item, p) ==
    /\ item.combo = <<p[1]>>
    /\ item.dosages = <<p[2]>>
    /\ item.match_pct = 100 * Scale

IdentityCase(p) ==
    /\ pc = "done" /\ error = "none"
    /\ TopN >= 1
    /\ Admitted(p[1])
    /\ Representable(p[1], p[2])
    /\ ConvergedOn(p[1])
    /\ Generates(p[1])

C12_BeamSingle ==
    \E p \in Identities :
       /\ IdentityCase(p)
       /\ algorithm = "beam"
       /\ ~IsComplex(p[1])
       /\ \E i \in 1..Len(matches) : IsIdentityResult(matches[i], p)


\* the memberships of a list of results
Memberships(results) == {Key(results[i].combo) : i \in 1..Len(results)}

\* the beam query that repeated an exhaustive query has returned
BothDone == pc = "done" /\ algorithm = "beam" /\ reference.set

SufficientBeam ==
    /\ beam_width >= 1 + Len(cformulas)
    /\ \/ beam_multiplier[1] = 0
       \/ Ceil(beam_width * beam_multiplier[1], beam_multiplier[2]) >= Len(cformulas)

\* with such a beam the beam query also returns only what the exhaustive one
\* returns
C13_ReturnedInReturned ==
    (BothDone /\ SufficientBeam) =>
       Memberships(matches) \subseteq Memberships(reference.matches)

C13_WideBeam ==
    /\ BothDone
    /\ SufficientBeam
    /\ max_cformulas = 2
    /\ Len(matches) >= 2


\* the mapping a composition in insertion order stands for
AsMap(composition) ==
    [h \in Herbs(composition) |-> Get(composition, h)]

\* sum over the known input items of dosage times the formula's amount of h
RECURSIVE InputAmount(_, _, _)
InputAmount(items, n, h) ==
    IF n = 0 THEN 0
    ELSE InputAmount(items, n - 1, h)
         + (IF items[n][1] \in Recipes /\ h \in DOMAIN database[items[n][1]]
            THEN items[n][2] * database[items[n][1]][h] ELSE 0)

InputNames(items) == {items[i][1] : i \in 1..Len(items)}

\* C21: cli.search in non-raw mode with every input name known calls
\* find_best_matches with the target that sums dosage times composition over
\* the input items and with the caller's excludes plus every complex input
\* formula, so that no complex input formula is returned; with an unknown
\* input name find_best_matches is not called.
C21_Search ==
    call.fn = "search" =>
      LET names == InputNames(call.items)
          herbs == UNION {DOMAIN database[f] : f \in names \cap Recipes}
      IN IF names \subseteq Recipes
         THEN /\ pc # "unknown"
              /\ AsMap(target_composition)
                   = [h \in herbs |-> InputAmount(call.items, Len(call.items), h)]
              /\ excludes = call.excludes \cup {f \in names : IsComplex(f)}
              /\ \A r \in Results \cup Range(produced) :
                    \A f \in names : IsComplex(f) => f \notin Key(r.combo)
         ELSE /\ pc = "unknown"
              /\ top_n = <<>>
              /\ Untouched

\* a search for a substitute of a complex recipe returned results
C21_Witness ==
    /\ call.fn = "search"
    /\ pc = "done"
    /\ \E f \in InputNames(call.items) : f \in Recipes /\ IsComplex(f)
    /\ matches # <<>>

\* a search with an unknown name ended without a query
C21_UnknownName ==
    /\ call.fn = "search"
    /\ pc = "unknown"
    /\ InputNames(call.items) \cap Recipes # {}


\* the optimizer was invoked at most once for a set of recipes, never for the
\* empty one, and the cache holds what it answered
OncePerSet ==
    /\ \A i, j \in 1..Len(opt_calls) :
          Key(opt_calls[i].combo) = Key(opt_calls[j].combo) => i = j
    /\ \A j \in 1..Len(opt_calls) :
          /\ opt_calls[j].combo # <<>>
          /\ Key(opt_calls[j].combo) \in DOMAIN evaluate_cache
          /\ evaluate_cache[Key(opt_calls[j].combo)].ok = opt_calls[j].ok
          /\ opt_calls[j].ok =>
               evaluate_cache[Key(opt_calls[j].combo)].dosages = opt_calls[j].x
    /\ \A k \in DOMAIN evaluate_cache :
          IF k = {} THEN evaluate_cache[k] = EmptyMatch
          ELSE \E j \in 1..Len(opt_calls) : Key(opt_calls[j].combo) = k

\* a call of calculate_match for a set that is in the cache answers from it
AnsweredFromCache ==
    (pc = "eval" /\ Key(ev.combo) \in DOMAIN evaluate_cache) =>
       /\ opt_calls' = opt_calls
       /\ evaluate_cache' = evaluate_cache
       /\ LET stored == evaluate_cache[Key(ev.combo)]
          IN IF stored.ok
             THEN /\ ev'.status # "raised"
                  /\ ev'.match_pct = stored.match_pct
                  /\ ev'.status = "returned" => ev'.dosages = RoundAll(stored.dosages)
             ELSE ev'.status = "raised"

\* the empty combination is answered with ((), 0.0, 100.0), without the optimizer
EmptyAnswered ==
    (pc = "eval" /\ ev.combo = <<>>) =>
       /\ opt_calls' = opt_calls
       /\ evaluate_cache'[{}] = [ok |-> TRUE, dosages |-> <<>>, delta |-> 0,
                                 match_pct |-> 100 * Scale]
       /\ ev'.status = "returned" /\ ev'.dosages = <<>> /\ ev'.match_pct = 100 * Scale

\* a query starts with an empty cache and only adds to it
CacheOfOneQuery ==
    IF pc \in {"new", "done"}
    THEN pc' = "gen" => evaluate_cache' = <<>> /\ opt_calls' = <<>>
    ELSE \A k \in DOMAIN evaluate_cache :
            k \in DOMAIN evaluate_cache' /\ evaluate_cache'[k] = evaluate_cache[k]

\* C22: within one query the optimizer is invoked at most once per unordered
\* set of recipes: a later calculate_match for any ordering of the set returns
\* the stored result or re-raises the stored error without the optimizer, the
\* empty combination is answered with ((), 0.0, 100.0) without the optimizer,
\* and the cache is emptied when a new query starts.
C22_Memoized ==
    /\ []OncePerSet
    /\ [][AnsweredFromCache /\ EmptyAnswered /\ CacheOfOneQuery]_vars

\* calculate_match is called for another ordering of a set the optimizer has
\* answered
C22_Witness ==
    /\ pc = "eval"
    /\ Key(ev.combo) \in DOMAIN evaluate_cache
    /\ \E j \in 1..Len(opt_calls) :
          /\ Key(opt_calls[j].combo) = Key(ev.combo)
          /\ opt_calls[j].combo # ev.combo

\* a stored error is about to be raised again
C22_StoredError ==
    /\ pc = "eval"
    /\ Key(ev.combo) \in DOMAIN evaluate_cache
    /\ ~evaluate_cache[Key(ev.combo)].ok

\* the second query starts although the cache of the first one is not empty
C22_SecondQuery ==
    /\ reference.set
    /\ reference.opt_calls # <<>>
    /\ pc = "gen"
    /\ evaluate_cache = <<>>


\* a is b with some members left out
RECURSIVE IsSubsequence(_, _)
IsSubsequence(a, b) ==
    IF a = <<>> THEN TRUE
    ELSE IF b = <<>> THEN FALSE
    ELSE IF Head(a) = Head(b) THEN IsSubsequence(Tail(a), Tail(b))
    ELSE IsSubsequence(a, Tail(b))

\* inside evaluate_combination the combination is a subsequence of the input
ReducedFromInput ==
    (pc = "eval" \/ ev.status = "returned") => IsSubsequence(ev.combo, ev.input)

\* one pass of evaluate_combination: it ends the call, or goes on with a
\* strictly shorter combination; what it returns is the combination of the
\* last pass with the match computed for that combination
EvaluatePass ==
    pc = "eval" =>
      /\ ev'.input = ev.input
      /\ IF pc' = "eval"
         THEN /\ Len(ev'.combo) < Len(ev.combo)
              /\ IsSubsequence(ev'.combo, ev.combo)
         ELSE /\ ev'.combo = ev.combo
              /\ ev'.status \in {"returned", "raised"}
              /\ ev'.status = "returned" =>
                   /\ Len(ev'.dosages) = Len(ev.combo)
                   /\ \A i \in 1..Len(ev'.dosages) : ev'.dosages[i] # 0
                   /\ ev'.match_pct = evaluate_cache'[Key(ev.combo)].match_pct

\* C23: evaluate_combination terminates: each pass of the zero-stripping loop
\* ends the loop or strictly shortens the combination (so at most len(combo)
\* re-optimizations), the combination returned is a subsequence of the input,
\* and the match returned is the one computed for the returned combination.
C23_EvaluateCombination ==
    /\ []ReducedFromInput
    /\ [][EvaluatePass]_vars

\* evaluate_combination returned a shorter, non-empty combination whose match
\* is not the one of the input
C23_Witness ==
    /\ ev.status = "returned"
    /\ ev.combo # ev.input
    /\ ev.combo # <<>>
    /\ Key(ev.input) \in DOMAIN evaluate_cache
    /\ evaluate_cache[Key(ev.input)].ok
    /\ evaluate_cache[Key(ev.input)].match_pct # ev.match_pct

\* evaluate_combination stripped a combination of two or more recipes to nothing
C23_StrippedToEmpty ==
    /\ ev.status = "returned"
    /\ Len(ev.input) >= 2
    /\ ev.combo = <<>>


\* a step of generate_combinations_at_depth that takes the next candidate of
\* the list, in a beam search with at least one depth step
TakesCandidate ==
    /\ pc = "gen"
    /\ algorithm = "beam"
    /\ max_cformulas > 0
    /\ gen'.depth = gen.depth
    /\ gen'.ci = gen.ci + 1

\* the candidate taken is passed through as it is: it reaches the layer, or
\* its membership is in the layer already
PassedThrough ==
    TakesCandidate =>
      LET item == gen.candidates[gen.ci + 1]
      IN /\ gen.depth \in 0..(max_cformulas - 1)
         /\ Key(item.combo) \in gen'.keys
         /\ Key(item.combo) \notin gen.keys =>
              IF NonFinal THEN gen'.out = Append(gen.out, item)
                          ELSE gen'.last = item.combo

\* a step that starts the evaluation of an extension
StartsExtension ==
    /\ pc = "gen"
    /\ pc' = "eval"
    /\ ev'.ret = "generate_combinations_at_depth"

\* an extension is the current candidate and one related complex recipe that
\* is not a member of it
ExtendsByOne ==
    StartsExtension =>
      LET item == gen.candidates[gen.ci]
      IN \E f \in Range(cformulas) \ Range(item.combo) :
            ev'.input = item.combo \o <<f>>

\* C24: at every depth step of the beam search each surviving candidate is
\* passed through unchanged and is also extended by one more complex recipe,
\* for every pool recipe that is not a member of it, whatever depth the
\* candidate was created at.
C24_PassAndExtend ==
    [][/\ PassedThrough
       /\ ExtendsByOne
       /\ TakesCandidate =>
            gen'.pool = ExtensionPool(gen.candidates[gen.ci + 1].combo,
                                      gen.candidates[gen.ci + 1].dosages)]_vars

\* when generate_combinations_at_depth is done with a candidate created at the
\* previous depth step, every recipe of its pool has been evaluated with it
PoolEvaluated ==
    (/\ pc = "gen" /\ algorithm = "beam" /\ max_cformulas > 0
     /\ gen.pool = <<>> /\ gen.ci >= 1) =>
       LET item == gen.candidates[gen.ci]
       IN item.depth = gen.depth =>
            \A f \in Range(ExtensionPool(item.combo, item.dosages)) :
               Key(item.combo \o <<f>>) \in DOMAIN evaluate_cache

\* C24 amended: each surviving candidate is passed through unchanged; a
\* candidate created at the previous depth step (at depth step 0 the initial
\* candidate) is also extended by one more complex recipe for every pool
\* recipe that is not a member of it; a candidate created earlier is passed
\* through and not extended.
C24_PassAndExtendAmended ==
    /\ []PoolEvaluated
    /\ [][/\ PassedThrough
          /\ ExtendsByOne
          /\ StartsExtension => gen.candidates[gen.ci].depth = gen.depth
          /\ TakesCandidate =>
               LET item == gen.candidates[gen.ci + 1]
               IN /\ item.depth <= gen.depth
                  /\ gen'.pool = IF item.depth = gen.depth
                                 THEN ExtensionPool(item.combo, item.dosages)
                                 ELSE <<>>]_vars

\* at depth step 1 a candidate created at depth step 0 has been extended and
\* the next candidate is about to be taken
C24_Witness ==
    /\ pc = "gen" /\ algorithm = "beam"
    /\ gen.depth = 1
    /\ gen.pool = <<>>
    /\ gen.ci >= 2
    /\ gen.candidates[gen.ci].depth = 1
    /\ ExtensionPool(gen.candidates[gen.ci].combo, gen.candidates[gen.ci].dosages) # <<>>

\* at depth step 1 the initial candidate was passed through and not extended
\* although its pool is not empty
C24_NotExtended ==
    /\ pc = "gen" /\ algorithm = "beam"
    /\ gen.depth = 1
    /\ gen.ci = 1
    /\ gen.pool = <<>>
    /\ gen.candidates[1].depth = 0
    /\ ExtensionPool(<<>>, <<>>) # <<>>


\* max(ceil(beam_width_factor * top_n), 1), top_n defaulted by find_best_matches
WidthOfCall ==
    LET product == beam_width_factor[1] * TopN
        ceiling == IF product % beam_width_factor[2] = 0
                   THEN product \div beam_width_factor[2]
                   ELSE product \div beam_width_factor[2] + 1
    IN IF ceiling >= 1 THEN ceiling ELSE 1

\* the place of a candidate in the emission order of its layer
EmittedAt(layer, item) == CHOOSE i \in 1..Len(layer) : layer[i] = item

\* a ranks before b in the layer: a higher match, or the same and emitted earlier
RanksBefore(layer, a, b) ==
    \/ a.match_pct > b.match_pct
    \/ a.match_pct = b.match_pct /\ EmittedAt(layer, a) < EmittedAt(layer, b)

\* a step that ends a non-final depth step
Prunes ==
    /\ pc = "gen"
    /\ algorithm = "beam"
    /\ gen'.depth = gen.depth + 1

\* what the pruning keeps: the first beam_width of the layer by rank
KeepsTheBest ==
    Prunes =>
      LET layer == gen.out
          kept == gen'.candidates
      IN /\ gen.depth < max_cformulas - 1
         /\ Len(kept) <= WidthOfCall
         /\ Len(kept) = Min(WidthOfCall, Len(layer))
         /\ \A a \in 1..Len(kept) : kept[a] \in Range(layer)
         /\ \A a, b \in 1..Len(kept) : a < b => RanksBefore(layer, kept[a], kept[b])
         /\ \A o \in Range(layer) \ Range(kept) :
               \A a \in 1..Len(kept) : RanksBefore(layer, kept[a], o)

\* a step of the final depth step in which the layer gets a candidate: it is
\* handed to find_matches at once
ForwardsAll ==
    (/\ algorithm = "beam" /\ max_cformulas > 0
     /\ pc \in {"gen", "generate_combinations_at_depth"}
     /\ gen.depth = max_cformulas - 1
     /\ gen'.keys # gen.keys) =>
       /\ gen'.depth = gen.depth
       /\ \E k \in gen'.keys \ gen.keys : Key(gen'.last) = k /\ gen'.keys = gen.keys \cup {k}
       /\ fm'.combo = gen'.last
       /\ pc' \in {"eval", "supplement"}

\* the candidate list never holds more than beam_width candidates after a
\* pruning, and the depth never passes the final depth step
WithinWidth ==
    (algorithm = "beam" /\ pc \notin {"new", "failed"}) =>
       /\ gen.depth >= 1 => Len(gen.candidates) <= WidthOfCall
       /\ max_cformulas > 0 => gen.depth <= max_cformulas - 1

\* C25: beam_width is max(ceil(beam_width_factor * top_n), 1) for the top_n of
\* the call; after every non-final depth step the candidate list holds at most
\* beam_width candidates, those of the layer with the highest match, ties in
\* emission order; the final depth step forwards every candidate of its layer.
C25_BeamWidth ==
    /\ [](beam_width = WidthOfCall /\ WithinWidth)
    /\ [][KeepsTheBest /\ ForwardsAll]_vars

\* a pruning with top_n = 1 has dropped a candidate of its layer: the layer
\* held the initial candidate and at least one evaluated recipe
C25_Witness ==
    /\ algorithm = "beam" /\ pc = "gen"
    /\ top_n = <<1>>
    /\ gen.depth = 1 /\ gen.ci = 0
    /\ Len(gen.candidates) = WidthOfCall
    /\ Cardinality({j \in 1..Len(opt_calls) :
                      /\ opt_calls[j].ok
                      /\ \A i \in 1..Len(opt_calls[j].x) : Round(opt_calls[j].x[i]) # 0})
         >= WidthOfCall


\* the candidates a non-final layer has emitted have distinct memberships, the
\* ones the layer has recorded
LayerUnique ==
    algorithm = "beam" =>
      /\ \A i, j \in 1..Len(gen.out) :
            Key(gen.out[i].combo) = Key(gen.out[j].combo) => i = j
      /\ Memberships(gen.out) \subseteq gen.keys

\* a step inside one layer of a beam search
InLayer ==
    /\ algorithm = "beam"
    /\ max_cformulas > 0
    /\ pc \in {"gen", "generate_combinations_at_depth"}
    /\ gen'.depth = gen.depth

\* a step inside a layer emits at most one candidate, one whose membership the
\* layer has not emitted, after the ones emitted before; it hands a candidate
\* to find_matches only if the membership is new
EmitsOnce ==
    InLayer =>
      /\ gen.keys \subseteq gen'.keys
      /\ Len(gen'.out) >= Len(gen.out)
      /\ SubSeq(gen'.out, 1, Len(gen.out)) = gen.out
      /\ gen'.out # gen.out =>
           /\ Len(gen'.out) = Len(gen.out) + 1
           /\ Key(gen'.out[Len(gen'.out)].combo) \notin gen.keys
           /\ gen'.keys = gen.keys \cup {Key(gen'.out[Len(gen'.out)].combo)}
      /\ (pc' \in {"eval", "supplement"} /\ ~StartsExtension) =>
           /\ Key(fm'.combo) \notin gen.keys
           /\ gen'.keys = gen.keys \cup {Key(fm'.combo)}

\* an extension, stripped or not, whose membership the layer has emitted is dropped
DropsRepeated ==
    (/\ InLayer
     /\ pc = "generate_combinations_at_depth"
     /\ ev.status = "returned"
     /\ Key(ev.combo) \in gen.keys) =>
       /\ gen' = gen
       /\ fm' = fm
       /\ pc' = "gen"

\* C26: within one beam layer generate_unique_combinations_at_depth never emits
\* two candidates with the same set of recipes: a candidate whose membership
\* was emitted in the layer, also one shortened by zero-stripping, is dropped,
\* and the first candidate emitted for a membership is the one kept.
C26_LayerDedup ==
    /\ []LayerUnique
    /\ [][EmitsOnce /\ DropsRepeated]_vars

\* an extension that zero-stripping shortened to a membership of the layer
\* has been dropped from a non-final layer
C26_Witness ==
    /\ algorithm = "beam" /\ pc = "gen"
    /\ NonFinal
    /\ ev.status = "returned"
    /\ ev.ret = "generate_combinations_at_depth"
    /\ ev.combo # ev.input
    /\ Key(ev.combo) \in gen.keys
    /\ gen.out # <<>>
    /\ \A i \in 1..Len(gen.out) :
          gen.out[i].combo = ev.combo => gen.out[i].depth <= gen.depth

\* an extension in another order than a candidate emitted earlier is about to
\* be dropped from the final layer
C26_OtherOrder ==
    /\ algorithm = "beam" /\ pc = "generate_combinations_at_depth"
    /\ ev.status = "returned"
    /\ Len(ev.combo) = 2
    /\ Key(ev.combo) \in gen.keys


\* the amounts of a recipe over a set of herbs, summed
AmountOver(formula, herbs) ==
    SumOver(DOMAIN database[formula] \cap herbs, database[formula])

\* the heuristic score of a is higher than the one of b: the share of the main
\* herbs in the recipe, 0 for a recipe whose amounts sum to 0
ScoresHigher(a, b, main_herbs) ==
    LET wa == AmountOver(a, main_herbs)
        ta == AmountOver(a, DOMAIN database[a])
        wb == AmountOver(b, main_herbs)
        tb == AmountOver(b, DOMAIN database[b])
        na == IF ta = 0 THEN 0 ELSE wa
        da == IF ta = 0 THEN 1 ELSE ta
        nb == IF tb = 0 THEN 0 ELSE wb
        db == IF tb = 0 THEN 1 ELSE tb
    IN na * db > nb * da

ScoresEqual(a, b, main_herbs) ==
    ~ScoresHigher(a, b, main_herbs) /\ ~ScoresHigher(b, a, main_herbs)

\* a is tried before b: a higher score, or the same and earlier in the catalog
TriedBefore(a, b, main_herbs) ==
    \/ ScoresHigher(a, b, main_herbs)
    \/ ScoresEqual(a, b, main_herbs) /\ Pos(a) < Pos(b)

\* ceil(beam_width * beam_multiplier)
PoolSizeOfCall ==
    LET product == WidthOfCall * beam_multiplier[1]
    IN IF product % beam_multiplier[2] = 0 THEN product \div beam_multiplier[2]
       ELSE product \div beam_multiplier[2] + 1

\* the recipes tried on a candidate that is extended
RecipesTried ==
    (TakesCandidate /\ gen.candidates[gen.ci + 1].depth = gen.depth) =>
      LET item == gen.candidates[gen.ci + 1]
          others == {f \in Recipes : /\ IsComplex(f) /\ Related(f) /\ f \notin excludes
                                     /\ f \notin Range(item.combo)}
          main_herbs == _calculate_main_herb(item.combo, item.dosages)
          pool == gen'.pool
      IN /\ Range(pool) \subseteq others
         /\ \A a, b \in 1..Len(pool) : pool[a] = pool[b] => a = b
         /\ IF beam_multiplier[1] > 0
            THEN /\ Len(pool) = Min(PoolSizeOfCall, Cardinality(others))
                 /\ \A a, b \in 1..Len(pool) :
                       a < b => TriedBefore(pool[a], pool[b], main_herbs)
                 /\ \A o \in others \ Range(pool) :
                       \A a \in 1..Len(pool) : TriedBefore(pool[a], o, main_herbs)
            ELSE /\ Range(pool) = others
                 /\ InCatalogOrder(pool)

\* C27: the recipes tried on a beam candidate are, if beam_multiplier > 0, the
\* ceil(beam_width * beam_multiplier) recipes of cformulas outside the
\* candidate with the highest heuristic score (amounts over the main herbs
\* divided by all amounts, 0 when these sum to 0), ties in catalog order; if
\* beam_multiplier = 0, every recipe of cformulas outside the candidate, in
\* catalog order.
C27_HeuristicPool ==
    [][/\ RecipesTried
       /\ ExtendsByOne
       /\ StartsExtension =>
            ev'.input = gen.candidates[gen.ci].combo \o <<Head(gen.pool)>>]_vars

\* a candidate is about to be extended with a pool that left a recipe out, one
\* that scores the same as a recipe of the pool
C27_Witness ==
    /\ algorithm = "beam" /\ pc = "gen"
    /\ beam_multiplier[1] > 0
    /\ gen.ci >= 1
    /\ gen.candidates[gen.ci].depth = gen.depth
    /\ Len(gen.pool) = PoolSizeOfCall
    /\ LET item == gen.candidates[gen.ci]
           main_herbs == _calculate_main_herb(item.combo, item.dosages)
       IN \E o \in Range(cformulas) \ (Range(gen.pool) \cup Range(item.combo)) :
             \E f \in Range(gen.pool) : ScoresEqual(f, o, main_herbs)

\* with beam_multiplier = 0 a candidate is about to be extended with two recipes
C27_NoHeuristic ==
    /\ algorithm = "beam" /\ pc = "gen"
    /\ beam_multiplier[1] = 0
    /\ Len(gen.pool) >= 2

\* a pool left out a recipe with a lower score than its own
C27_LowerLeftOut ==
    /\ algorithm = "beam" /\ pc = "gen"
    /\ beam_multiplier[1] > 0
    /\ gen.ci >= 1
    /\ Len(gen.pool) = PoolSizeOfCall
    /\ LET item == gen.candidates[gen.ci]
           main_herbs == _calculate_main_herb(item.combo, item.dosages)
       IN \E o \in Range(cformulas) \ (Range(gen.pool) \cup Range(item.combo)) :
             \E f \in Range(gen.pool) : ScoresHigher(f, o, main_herbs)


\* ------------------------------------------------------------ C28
\* the candidate herbs of the supplement call: target components with a
\* single recipe and a positive rounded remainder
SupplementCandidates ==
    {h \in Herbs(target_composition) :
       /\ SinglesOf(h) # {}
       /\ Round(Get(target_composition, h)
                  - Contribution(call.combo, call.dosages, h)) > 0}

\* the number of single recipes every leaf of the enumeration appends
SupplementDepth == Min(max_sformulas, Cardinality(SupplementCandidates))

\* the numbers of single recipes appended by the emitted combinations
AppendedCounts == {Len(call.out[i]) - Len(call.combo) : i \in 1..Len(call.out)}

\* C28 as stated: for a combination with m candidate herbs the supplement
\* stage emits extensions with every number of appended single recipes from 1
\* up to min(max_sformulas, m), not only those of maximal length.
C28_EveryLength ==
    call.fn = "generate_combinations_for_sformulas" =>
      \A k \in 1..SupplementDepth : k \in AppendedCounts

\* C28 amended: the supplement stage enumerates depth-first and emits at the
\* leaves only: every emitted combination is the given one followed by exactly
\* min(max_sformulas, m) single recipes of distinct candidate herbs, every
\* single recipe of the first candidate herb starts some emitted extension,
\* and no shorter extension is emitted.
C28_LeavesOnly ==
    call.fn = "generate_combinations_for_sformulas" =>
      /\ \A i \in 1..Len(call.out) :
           LET c == call.out[i]
               n == Len(call.combo)
           IN /\ Len(c) = n + SupplementDepth
              /\ SubSeq(c, 1, n) = call.combo
              /\ \A j \in n + 1..Len(c) :
                   \E h \in SupplementCandidates : c[j] \in SinglesOf(h)
              /\ \A j, k \in n + 1..Len(c) :
                   j # k => DOMAIN database[c[j]] # DOMAIN database[c[k]]
      /\ SupplementDepth >= 1 =>
           /\ call.out # <<>>
           /\ \E h \in SupplementCandidates :
                {call.out[i][Len(call.combo) + 1] : i \in 1..Len(call.out)}
                  = SinglesOf(h)
      /\ AppendedCounts \subseteq {SupplementDepth}

\* two candidate herbs and two single recipes allowed: every emitted
\* combination appends two, none appends one
C28_Witness ==
    /\ call.fn = "generate_combinations_for_sformulas"
    /\ SupplementDepth = 2
    /\ Len(call.out) >= 2
    /\ AppendedCounts = {2}


\* ------------------------------------------------------------ C29
\* the places of a candidate list that hold the empty combination
EmptyPlaces(list) == {i \in 1..Len(list) : list[i].combo = <<>>}

\* a beam query whose generator has been started
BeamRunning == algorithm = "beam" /\ pc \notin {"new", "failed"} /\ TopN > 0

\* the candidate list starts with the initial empty candidate, holds it once
\* and holds at most beam_width - 1 other candidates once a pruning has run;
\* a non-final layer has emitted it first
EmptyLeads ==
    BeamRunning =>
      /\ beam_width >= 1
      /\ EmptyPlaces(gen.candidates) = {1}
      /\ gen.candidates[1].match_pct = 100 * Scale
      /\ gen.candidates[1].depth = 0
      /\ gen.depth >= 1 =>
           Cardinality(DOMAIN gen.candidates \ EmptyPlaces(gen.candidates))
             <= beam_width - 1
      /\ gen.out # <<>> => EmptyPlaces(gen.out) = {1}
      /\ gen.ci >= 1 => {} \in gen.keys \/ max_cformulas <= 0

\* every pruning retains the empty candidate, in the first place
PruningKeepsEmpty ==
    Prunes =>
      /\ gen.out # <<>>
      /\ gen.out[1].combo = <<>>
      /\ gen'.candidates[1] = gen.out[1]
      /\ Len(gen'.candidates) <= beam_width

\* a retained candidate with a depth tag lower than the depth of the step is
\* passed through and no extension of it is evaluated
OlderNotExtended ==
    /\ TakesCandidate =>
         LET item == gen.candidates[gen.ci + 1]
         IN item.depth < gen.depth =>
              /\ Key(item.combo) \in gen'.keys
              /\ gen'.pool = <<>>
    /\ StartsExtension => gen.candidates[gen.ci].depth >= gen.depth

\* the generator has yielded the empty combination: the final depth step, or
\* the loop of line 365 when there is no depth step, has taken its first candidate
EmptyYielded ==
    /\ BeamRunning
    /\ ~NonFinal
    /\ gen.ci >= 1

\* a step in which the generator hands the empty combination to find_matches
YieldsEmpty ==
    /\ algorithm = "beam"
    /\ pc \in {"gen", "generate_combinations_at_depth"}
    /\ pc' = "supplement"
    /\ fm'.combo = <<>>

\* the empty combination is yielded only when it has not been, and only such
\* a step makes it yielded
YieldedOnce ==
    /\ YieldsEmpty => ~EmptyYielded /\ EmptyYielded'
    /\ (algorithm = "beam" /\ pc # "new" /\ ~EmptyYielded /\ EmptyYielded') => YieldsEmpty
    /\ (algorithm = "beam" /\ EmptyYielded) => EmptyYielded'

\* a finished beam query has consumed the generator, the empty combination included
FinishedYielded == (algorithm = "beam" /\ pc = "done" /\ TopN > 0) => EmptyYielded

C29_NoDepthStep ==
    /\ algorithm = "beam" /\ pc = "done"
    /\ max_cformulas = 0
    /\ EmptyYielded

\* in the final depth step an extension was stripped to the empty combination
\* after the empty combination had been yielded
C29_StrippedToEmpty ==
    /\ algorithm = "beam"
    /\ pc = "generate_combinations_at_depth"
    /\ ev.status = "returned"
    /\ ev.combo = <<>>
    /\ EmptyYielded


\* ------------------------------------------------------------ C30
\* the sequence has no recipe twice
DuplicateFree(combo) == \A i, j \in 1..Len(combo) : combo[i] = combo[j] => i = j

\* every complex recipe of the sequence stands before every single recipe
ComplexFirst(combo) ==
    \A i, j \in 1..Len(combo) :
       (IsComplex(combo[i]) /\ ~IsComplex(combo[j])) => i < j

\* every member has a component the target asks for
MembersRelated(combo) ==
    \A i \in 1..Len(combo) :
       \E herb \in DOMAIN database[combo[i]] : herb \in Herbs(target_composition)

\* no two single recipes of the sequence have the same component
SinglesDistinct(combo) ==
    \A i, j \in 1..Len(combo) :
       (/\ i # j /\ ~IsComplex(combo[i]) /\ ~IsComplex(combo[j])) =>
          DOMAIN database[combo[i]] # DOMAIN database[combo[j]]

\* C30: every combination find_best_matches returns, with either algorithm,
\* is a duplicate-free sequence of catalog recipe ids, its complex recipes
\* before its single recipes, every member sharing a component with the
\* target, no two single recipes with the same component.
C30_WellFormed ==
    \A i \in 1..Len(matches) :
       LET combo == matches[i].combo
       IN /\ Range(combo) \subseteq Recipes
          /\ DuplicateFree(combo)
          /\ ComplexFirst(combo)
          /\ MembersRelated(combo)
          /\ SinglesDistinct(combo)

\* an exhaustive query has returned a combination of one complex recipe and
\* two single recipes, one of them of a herb with two single recipes
C30_Witness ==
    /\ pc = "done"
    /\ algorithm = "exhaustive"
    /\ \E i \in 1..Len(matches) :
         LET combo == matches[i].combo
         IN /\ Len(combo) = 3
            /\ IsComplex(combo[1]) /\ ~IsComplex(combo[2]) /\ ~IsComplex(combo[3])
            /\ \E j \in 2..3 :
                 Cardinality(SinglesOf(CHOOSE h \in DOMAIN database[combo[j]] : TRUE)) >= 2

\* a beam query has returned a combination that starts with two complex
\* recipes that are not in catalog order
C30_BeamOrder ==
    /\ pc = "done"
    /\ algorithm = "beam"
    /\ \E i \in 1..Len(matches) :
         LET combo == matches[i].combo
         IN /\ Len(combo) >= 2
            /\ IsComplex(combo[1]) /\ IsComplex(combo[2])
            /\ Pos(combo[1]) > Pos(combo[2])

====
